---- MODULE Spec2Model ----
(***************************************************************************)
(* Model of the token data synchronization engine of the repository:       *)
(* the useTokenData hook (src/src/hooks/useTokenData.ts), the snapshot     *)
(* normalizer (src/src/utils/tokenUtils.ts), the safe number parser        *)
(* (src/src/utils/formatters.ts) and the strategy filter engine            *)
(* (combinedFilters, src/unnamed/part_006).                                *)
(*                                                                         *)
(* Numbers are integers. Two JavaScript values that are not integers are   *)
(* kept as reserved integers, so that every numeric field has one type:    *)
(* NaN (the result of parseFloat on a text that is no number) and          *)
(* Undefined (an optional numeric field that is absent).                   *)
(***************************************************************************)
EXTENDS Integers, Sequences, FiniteSets, TLC

(* ------------------------------------------------------------------ *)
(* Bounds of the model                                                  *)
(* ------------------------------------------------------------------ *)
\* the clock (milliseconds of Date) shows 1 at mount and runs to MaxTime
MaxTime == 2
\* a snapshot page or a scanner-pairs batch holds at most MaxPage records
MaxPage == 2
\* a tick names at most MaxSwaps swaps
MaxSwaps == 2
\* at most MaxPending snapshot requests are in flight
MaxPending == 1
\* where requests overlap, at most MaxInFlight of them are in flight
MaxInFlight == 2
\* where two tables share the transport, a page holds at most MaxShown records
MaxShown == 1
\* at most MaxTimers reconnect timers are pending
MaxTimers == 1
\* at most MaxOrphans sockets that the service has replaced are still open
MaxOrphans == 1
\* the server reports totalRows in 0..MaxTotal
MaxTotal == 2
\* the highest page number requested
MaxPageNo == 2

(* ------------------------------------------------------------------ *)
(* JavaScript values                                                    *)
(* ------------------------------------------------------------------ *)
NaN == -1000000
Undefined == -1000001

\* null where a number | null is expected
NullNumber == -1000002

\* a numeric source field: a decimal text, a text that is no number,
\* the empty text, or null/undefined
Num(n) == [k |-> "num", n |-> n]
Txt == [k |-> "text", n |-> 0]
Empty == [k |-> "empty", n |-> 0]
Null == [k |-> "null", n |-> 0]

\* an optional text source field (a link): null, "" or a text
NullStr == "null"
UndefStr == "undefined"

\* global parseFloat
parseFloat(v) == IF v.k = "num" THEN v.n ELSE NaN

\* a number used as a condition: 0 and NaN are falsy
Truthy(x) == x # 0 /\ x # NaN

\* a number | null used as a condition
TruthyNumber(x) == x # NullNumber /\ Truthy(x)

\* a string | undefined used as a condition: undefined and "" are falsy
TruthyText(t) == t # "undefined" /\ t # "null" /\ t # ""

\* a string|null used as a condition: null and "" are falsy
TruthyRaw(v) == v.k \in {"num", "text"}

\* a * b of two numbers
Mul(a, b) == IF a = NaN \/ b = NaN THEN NaN ELSE a * b

\* x || undefined on an optional text
OrUndefined(s) == IF s \in {NullStr, ""} THEN UndefStr ELSE s

(* ------------------------------------------------------------------ *)
(* formatters.ts                                                        *)
(* ------------------------------------------------------------------ *)
safeParseFloat(v) ==
    IF v.k \in {"null", "empty"}
    THEN 0
    ELSE LET parsed == parseFloat(v) IN IF parsed = NaN THEN 0 ELSE parsed

(* ------------------------------------------------------------------ *)
(* tokenUtils.ts                                                        *)
(* ------------------------------------------------------------------ *)
\* a market cap that takes the first value that is not negative
FirstNonNegativeMcap(result) ==
    LET currentMcap == safeParseFloat(result.currentMcap)
        initialMcap == safeParseFloat(result.initialMcap)
        pairMcapUsd == safeParseFloat(result.pairMcapUsd)
        pairMcapUsdInitial == safeParseFloat(result.pairMcapUsdInitial)
        totalSupply == safeParseFloat(result.token1TotalSupplyFormatted)
        price == safeParseFloat(result.price)
    IN  IF currentMcap >= 0 THEN currentMcap
        ELSE IF initialMcap >= 0 THEN initialMcap
        ELSE IF pairMcapUsd >= 0 THEN pairMcapUsd
        ELSE IF pairMcapUsdInitial >= 0 THEN pairMcapUsdInitial
        ELSE totalSupply * price

calculateMarketCap(result) ==
    LET currentMcap == safeParseFloat(result.currentMcap)
        initialMcap == safeParseFloat(result.initialMcap)
        pairMcapUsd == safeParseFloat(result.pairMcapUsd)
        pairMcapUsdInitial == safeParseFloat(result.pairMcapUsdInitial)
        totalSupply == safeParseFloat(result.token1TotalSupplyFormatted)
        price == safeParseFloat(result.price)
    IN  IF currentMcap > 0 THEN currentMcap
        ELSE IF initialMcap > 0 THEN initialMcap
        ELSE IF pairMcapUsd > 0 THEN pairMcapUsd
        ELSE IF pairMcapUsdInitial > 0 THEN pairMcapUsdInitial
        ELSE totalSupply * price

\* a normalizer that stamps every entity with the epoch
StampEpoch(t) == 0

\* new Date() of the normalizer: the clock at the time of the call
StampNow(t) == t

\* scannerResultToToken(result), called when the clock shows t.
\* tokenCreatedTimestamp is kept as the token's age in hours (ageHours);
\* the fields the engine never reads (names, exchange, price history,
\* the 1H/6H/24H changes, liquidity.changePc) are left out.
scannerResultToToken(result, t) ==
    [ id |-> result.pairAddress,
      pairAddress |-> result.pairAddress,
      priceUsd |-> safeParseFloat(result.price),
      volumeUsd |-> safeParseFloat(result.volume),
      mcap |-> calculateMarketCap(result),
      totalSupply |-> safeParseFloat(result.token1TotalSupplyFormatted),
      priceChange5M |-> safeParseFloat(result.diff5M),
      transactions |-> [buys |-> result.buys, sells |-> result.sells],
      audit |-> [ mintable |-> ~result.isMintAuthDisabled,
                  freezable |-> ~result.isFreezeAuthDisabled,
                  honeypot |-> (result.honeyPot = "true"),
                  contractVerified |-> result.contractVerified ],
      ageHours |-> result.ageHours,
      liquidity |-> safeParseFloat(result.liquidity),
      migrationPc |-> IF TruthyRaw(result.migrationProgress)
                      THEN safeParseFloat(result.migrationProgress)
                      ELSE Undefined,
      socialLinks |-> [ discord |-> OrUndefined(result.discordLink),
                        telegram |-> OrUndefined(result.telegramLink),
                        twitter |-> OrUndefined(result.twitterLink),
                        website |-> OrUndefined(result.webLink) ],
      dexPaid |-> result.dexPaid,
      lastUpdated |-> StampNow(t) ]

\* pairs.map(scannerResultToToken)
RECURSIVE MapToTokens(_, _)
MapToTokens(pairs, t) ==
    IF pairs = <<>> THEN <<>>
    ELSE <<scannerResultToToken(Head(pairs), t)>> \o MapToTokens(Tail(pairs), t)

(* ------------------------------------------------------------------ *)
(* test-task-types.ts: the strategy presets                             *)
(* ------------------------------------------------------------------ *)
\* filters.combinedFilter = null
NoFilter == "none"

PresetTypes == {"moonshot", "blue-chip", "scalp", "hodl", "custom"}

\* a preset that is null (custom) or not in the table
NullConfig == [isNull |-> TRUE]

\* COMBINED_FILTER_PRESETS[type]; a ratio threshold r is kept as 100 * r
COMBINED_FILTER_PRESETS(type) ==
    CASE type = "moonshot" ->
           [ isNull |-> FALSE,
             criteria |-> [ maxAge |-> 24 * 60 * 60, minVol24H |-> 5000,
                            rankBy |-> "volume", orderBy |-> "desc",
                            isNotHP |-> TRUE ],
             additionalChecks |-> [ minPriceChange5M |-> 5,
                                    minVolumeGrowth |-> 50,
                                    maxRiskScore |-> 70,
                                    minTransactionCount |-> 20 ] ]
      [] type = "blue-chip" ->
           [ isNull |-> FALSE,
             criteria |-> [ minVol24H |-> 100000, minLiq |-> 50000,
                            maxAge |-> 30 * 24 * 60 * 60,
                            rankBy |-> "volume", orderBy |-> "desc",
                            isNotHP |-> TRUE, isVerified |-> TRUE ],
             additionalChecks |-> [ maxPriceChange5M |-> 10,
                                    minLiquidityRatio |-> 10,
                                    maxRiskScore |-> 30,
                                    requiresSocialLinks |-> TRUE ] ]
      [] type = "scalp" ->
           [ isNull |-> FALSE,
             criteria |-> [ minVol24H |-> 20000,
                            rankBy |-> "volume", orderBy |-> "desc",
                            isNotHP |-> TRUE ],
             additionalChecks |-> [ minVolumeGrowth |-> 100,
                                    minTransactionCount |-> 50,
                                    maxRiskScore |-> 60 ] ]
      [] type = "hodl" ->
           [ isNull |-> FALSE,
             criteria |-> [ minVol24H |-> 50000, minLiq |-> 100000,
                            maxAge |-> 365 * 24 * 60 * 60,
                            rankBy |-> "mcap", orderBy |-> "desc",
                            isNotHP |-> TRUE, isVerified |-> TRUE ],
             additionalChecks |-> [ maxPriceChange5M |-> 5,
                                    minLiquidityRatio |-> 20,
                                    maxRiskScore |-> 25,
                                    requiresSocialLinks |-> TRUE ] ]
      [] OTHER -> NullConfig

(* ------------------------------------------------------------------ *)
(* combinedFilters.ts                                                   *)
(* ------------------------------------------------------------------ *)
getCombinedFilterConfig(type) ==
    IF type = NoFilter THEN NullConfig
    ELSE IF type \in PresetTypes THEN COMBINED_FILTER_PRESETS(type)
    ELSE NullConfig

\* x || 0 on a number
OrZero(x) == IF x = NaN THEN 0 ELSE x

Abs(x) == IF x < 0 THEN -x ELSE x

\* liquidity / mcap < pct / 100, for mcap that is neither 0 nor NaN
RatioBelow(liquidity, mcap, pct) ==
    IF mcap > 0 THEN 100 * liquidity < pct * mcap
    ELSE 100 * liquidity > pct * mcap

\* socialLinks.twitter || socialLinks.telegram || socialLinks.website
HasLinks(token) ==
    \E k \in {"twitter", "telegram", "website"} :
        token.socialLinks[k] \notin {UndefStr, ""}

calculateRiskScore(token) ==
    LET ageInHours == token.ageHours
        age == IF ageInHours < 1 THEN 40
               ELSE IF ageInHours < 24 THEN 30
               ELSE IF ageInHours < 168 THEN 20
               ELSE IF ageInHours < 720 THEN 10
               ELSE 0
        liq == IF Truthy(token.liquidity) /\ Truthy(token.mcap)
               THEN IF RatioBelow(token.liquidity, token.mcap, 5) THEN 25
                    ELSE IF RatioBelow(token.liquidity, token.mcap, 10) THEN 15
                    ELSE IF RatioBelow(token.liquidity, token.mcap, 20) THEN 5
                    ELSE 0
               ELSE 0
        audit == (IF token.audit.honeypot THEN 50 ELSE 0)
                 + (IF token.audit.mintable THEN 20 ELSE 0)
                 + (IF token.audit.freezable THEN 15 ELSE 0)
                 + (IF ~token.audit.contractVerified THEN 25 ELSE 0)
        vol == IF token.volumeUsd # NaN /\ token.volumeUsd < 1000 THEN 20
               ELSE IF token.volumeUsd # NaN /\ token.volumeUsd < 10000 THEN 10
               ELSE 0
        social == IF ~HasLinks(token) THEN 15 ELSE 0
        riskScore == age + liq + audit + vol + social
    IN  IF riskScore > 100 THEN 100 ELSE IF riskScore < 0 THEN 0 ELSE riskScore

passesAdditionalChecks(token, combinedFilterType) ==
    LET config == getCombinedFilterConfig(combinedFilterType) IN
    IF combinedFilterType = NoFilter THEN TRUE
    ELSE IF config.isNull THEN TRUE
    ELSE
      LET checks == config.additionalChecks
          Has(k) == k \in DOMAIN checks
          totalTxns == token.transactions.buys + token.transactions.sells
          pc5M == OrZero(token.priceChange5M)
      IN  /\ (Has("minPriceChange5M") => ~(pc5M < checks.minPriceChange5M))
          /\ (Has("maxPriceChange5M") => ~(Abs(pc5M) > checks.maxPriceChange5M))
          /\ (Has("minVolumeGrowth") =>
                ~(totalTxns < (IF Has("minTransactionCount")
                                  /\ checks.minTransactionCount # 0
                               THEN checks.minTransactionCount ELSE 10)))
          /\ ((Has("minLiquidityRatio") /\ Truthy(token.liquidity)
                 /\ Truthy(token.mcap)) =>
                ~RatioBelow(token.liquidity, token.mcap, checks.minLiquidityRatio))
          /\ (Has("maxRiskScore") =>
                ~(calculateRiskScore(token) > checks.maxRiskScore))
          /\ (Has("minTransactionCount") =>
                ~(totalTxns < checks.minTransactionCount))
          /\ ((Has("requiresSocialLinks") /\ checks.requiresSocialLinks) =>
                HasLinks(token))

\* a filter that lets every token through
FilterNothing(tokenList, combinedFilterType) == tokenList

\* tokens.filter(token => passesAdditionalChecks(token, type))
RECURSIVE filterTokensByCombinedFilter(_, _)
filterTokensByCombinedFilter(tokenList, combinedFilterType) ==
    IF combinedFilterType = NoFilter \/ tokenList = <<>> THEN tokenList
    ELSE (IF passesAdditionalChecks(Head(tokenList), combinedFilterType)
          THEN <<Head(tokenList)>> ELSE <<>>)
         \o filterTokensByCombinedFilter(Tail(tokenList), combinedFilterType)

\* a GetScannerResultParams object is a function from the keys it has to
\* their values; obj.key, with absent for undefined
Prop(obj, key, absent) == IF key \in DOMAIN obj THEN obj[key] ELSE absent

\* { ...a, ...b }
Spread(a, b) ==
    [key \in DOMAIN a \cup DOMAIN b |->
        IF key \in DOMAIN b THEN b[key] ELSE a[key]]

\* a merge that starts the query over at the first page
MergedFromFirstPage(baseParams, combinedFilterType) ==
    LET config == getCombinedFilterConfig(combinedFilterType)
    IN  IF combinedFilterType = NoFilter \/ config.isNull THEN baseParams
        ELSE Spread(Spread(baseParams, config.criteria),
                    [page |-> 1,
                     chain |-> Prop(baseParams, "chain", UndefStr)])

\* applyCombinedFilterToParams(baseParams, combinedFilterType)
applyCombinedFilterToParams(baseParams, combinedFilterType) ==
    LET config == getCombinedFilterConfig(combinedFilterType)
    IN  IF combinedFilterType = NoFilter \/ config.isNull THEN baseParams
        ELSE Spread(Spread(baseParams, config.criteria),
                    [page |-> Prop(baseParams, "page", Undefined),
                     chain |-> Prop(baseParams, "chain", UndefStr)])

\* TRENDING_TOKENS_FILTERS and NEW_TOKENS_FILTERS
TRENDING_TOKENS_FILTERS ==
    [rankBy |-> "volume", orderBy |-> "desc", minVol24H |-> 1000,
     isNotHP |-> TRUE, maxAge |-> 7 * 24 * 60 * 60]
NEW_TOKENS_FILTERS ==
    [rankBy |-> "age", orderBy |-> "desc", maxAge |-> 24 * 60 * 60,
     isNotHP |-> TRUE]

\* DEFAULT_FILTERS
DEFAULT_FILTERS ==
    [chains |-> <<"ETH", "SOL", "BASE", "BSC">>, minVolume |-> NullNumber,
     maxAge |-> NullNumber, minMarketCap |-> NullNumber,
     excludeHoneypots |-> TRUE, combinedFilter |-> NoFilter]

\* base parameters that give every table the template of the trending one
TrendingBaseParams(filters, tableType, page) ==
    [rankBy |-> "volume", orderBy |-> "desc",
     minVol24H |-> IF TruthyNumber(filters.minVolume)
                   THEN filters.minVolume ELSE 1000,
     isNotHP |-> filters.excludeHoneypots,
     maxAge |-> IF TruthyNumber(filters.maxAge)
                THEN filters.maxAge * 60 * 60 ELSE 7 * 24 * 60 * 60,
     page |-> page]

\* lines 232-249: the base parameters of the table type
TableBaseParams(filters, tableType, page) ==
    IF tableType = "trending"
    THEN [rankBy |-> "volume", orderBy |-> "desc",
          minVol24H |-> IF TruthyNumber(filters.minVolume)
                        THEN filters.minVolume ELSE 1000,
          isNotHP |-> filters.excludeHoneypots,
          maxAge |-> IF TruthyNumber(filters.maxAge)
                     THEN filters.maxAge * 60 * 60 ELSE 7 * 24 * 60 * 60,
          page |-> page]
    ELSE [rankBy |-> "age", orderBy |-> "desc",
          maxAge |-> IF TruthyNumber(filters.maxAge)
                     THEN filters.maxAge * 60 * 60 ELSE 24 * 60 * 60,
          isNotHP |-> filters.excludeHoneypots,
          page |-> page]

\* buildApiParamsWithCombinedFilters(filters, tableType, page)
buildApiParamsWithCombinedFilters(filters, tableType, page) ==
    LET base == TableBaseParams(filters, tableType, page)
        withLiq == IF TruthyNumber(filters.minMarketCap)
                   THEN Spread(base, [minLiq |-> filters.minMarketCap])
                   ELSE base
        withChain == IF Len(filters.chains) > 0
                     THEN Spread(withLiq, [chain |-> filters.chains[1]])
                     ELSE withLiq
    IN  applyCombinedFilterToParams(withChain, filters.combinedFilter)

\* the props of useTokenData; hasFilters is whether filters is supplied,
\* and a sortColumn or sortOrder not supplied is undefined
Props(tableType, hasFilters, filters, sortColumn, sortOrder) ==
    [tableType |-> tableType, hasFilters |-> hasFilters, filters |-> filters,
     sortColumn |-> sortColumn, sortOrder |-> sortOrder]

\* useTokenData.ts, buildApiParams(page)
buildApiParams(props, page) ==
    IF ~props.hasFilters
    THEN Spread(IF props.tableType = "trending"
                THEN TRENDING_TOKENS_FILTERS ELSE NEW_TOKENS_FILTERS,
                [page |-> page])
    ELSE LET apiParams == buildApiParamsWithCombinedFilters(
                              props.filters, props.tableType, page)
             ranked == IF TruthyText(props.sortColumn)
                       THEN Spread(apiParams, [rankBy |-> props.sortColumn])
                       ELSE apiParams
         IN  IF TruthyText(props.sortOrder)
             THEN Spread(ranked, [orderBy |-> props.sortOrder])
             ELSE ranked

(* ------------------------------------------------------------------ *)
(* The inputs the model draws from                                      *)
(* ------------------------------------------------------------------ *)
\* pair addresses the server may name
Ids == {"A", "B"}

\* two shapes of a server record ("clean", well-formed; "risky", with
\* missing and malformed fields)
Variants == {"clean", "risky"}

ScannerResult(id, v) ==
    IF v = "clean"
    THEN [ pairAddress |-> id, price |-> Num(1),
           currentMcap |-> Num(1000), initialMcap |-> Num(900),
           pairMcapUsd |-> Num(800), pairMcapUsdInitial |-> Num(700),
           token1TotalSupplyFormatted |-> Num(1000), volume |-> Num(50000),
           diff5M |-> Num(2), buys |-> 30, sells |-> 30,
           isMintAuthDisabled |-> TRUE, isFreezeAuthDisabled |-> TRUE,
           honeyPot |-> "false", contractVerified |-> TRUE,
           ageHours |-> 1000, liquidity |-> Num(500),
           migrationProgress |-> Null,
           discordLink |-> NullStr, telegramLink |-> NullStr,
           twitterLink |-> "https://twitter.com/t", webLink |-> "",
           dexPaid |-> FALSE ]
    ELSE [ pairAddress |-> id, price |-> Num(2),
           currentMcap |-> Num(0), initialMcap |-> Txt,
           pairMcapUsd |-> Empty, pairMcapUsdInitial |-> Null,
           token1TotalSupplyFormatted |-> Num(1000), volume |-> Txt,
           diff5M |-> Num(20), buys |-> 0, sells |-> 5,
           isMintAuthDisabled |-> FALSE, isFreezeAuthDisabled |-> TRUE,
           honeyPot |-> "true", contractVerified |-> FALSE,
           ageHours |-> 0, liquidity |-> Num(10),
           migrationProgress |-> Num(50),
           discordLink |-> NullStr, telegramLink |-> NullStr,
           twitterLink |-> NullStr, webLink |-> NullStr,
           dexPaid |-> TRUE ]

\* sequences over S of length 0..n
SeqsUpTo(S, n) == UNION { [1..k -> S] : k \in 0..n }

\* swaps of a tick (priceToken1Usd, isOutlier)
Swaps ==
    { [priceToken1Usd |-> Num(3), isOutlier |-> FALSE],
      [priceToken1Usd |-> Num(4), isOutlier |-> TRUE],
      [priceToken1Usd |-> Txt, isOutlier |-> FALSE] }

SwapLists == SeqsUpTo(Swaps, MaxSwaps)

\* pair-stats payloads (pair details and migrationProgress) for a pair
PairStatsMsg(id, v) ==
    IF v = "clean"
    THEN [ pairAddress |-> id,
           mintAuthorityRenounced |-> TRUE, freezeAuthorityRenounced |-> FALSE,
           token1IsHoneypot |-> FALSE, isVerified |-> TRUE,
           linkDiscord |-> NullStr, linkTelegram |-> NullStr,
           linkTwitter |-> "https://twitter.com/updated",
           linkWebsite |-> "https://updated.com",
           dexPaid |-> FALSE, migrationProgress |-> Num(85) ]
    ELSE [ pairAddress |-> id,
           mintAuthorityRenounced |-> FALSE, freezeAuthorityRenounced |-> TRUE,
           token1IsHoneypot |-> TRUE, isVerified |-> FALSE,
           linkDiscord |-> "", linkTelegram |-> NullStr,
           linkTwitter |-> NullStr, linkWebsite |-> "",
           dexPaid |-> TRUE, migrationProgress |-> Txt ]

PairStatsMsgs == { PairStatsMsg(id, v) : id \in Ids, v \in Variants }

\* the strategy presets a consumer selects in the model
FilterChoices == {NoFilter, "blue-chip"}

\* base parameter objects: each of page, chain, rankBy and minVol24H is
\* absent or has one of a few values (null among them)
ParamKeys == {"page", "chain", "rankBy", "minVol24H"}
PageValues == (1..MaxPageNo) \cup {NullNumber}
ChainValues == {"ETH", "SOL", NullStr}
BaseParamsOf(keys, page, chain) ==
    [key \in keys |->
        CASE key = "page" -> page
          [] key = "chain" -> chain
          [] key = "rankBy" -> "age"
          [] key = "minVol24H" -> 1]
BaseParams ==
    { BaseParamsOf(keys, page, chain) :
        keys \in SUBSET ParamKeys, page \in PageValues,
        chain \in ChainValues }

\* the names a caller passes for a preset, null (NoFilter) included
FilterTypes == PresetTypes \cup {NoFilter}

\* the two useTokenData instances of the application
Tables == {"trending", "new"}

\* what the server may send in a market-cap field: zero, a negative
\* number, a positive number, a text that is no number, "" or null
RawMcaps(positive) ==
    {Num(0), Num(0 - 5), Num(positive), Txt, Empty, Null}

\* records that differ in the four market-cap fields, the supply and the
\* price
McapRecords ==
    { [ ScannerResult("A", "clean") EXCEPT
          !.currentMcap = c, !.initialMcap = i, !.pairMcapUsd = p,
          !.pairMcapUsdInitial = q, !.token1TotalSupplyFormatted = ts,
          !.price = pr ] :
        c \in RawMcaps(400), i \in RawMcaps(500000), p \in RawMcaps(600),
        q \in RawMcaps(700), ts \in {Num(1000), Null}, pr \in {Num(2), Txt} }

\* entities for the strategy checks: a well-formed entity in which the
\* fields the checks read take these values (links: a website or none)
EntityOf(liquidity, mcap, ageHours, audit, volumeUsd, website, change, buys) ==
    [ scannerResultToToken(ScannerResult("A", "clean"), 1) EXCEPT
        !.liquidity = liquidity, !.mcap = mcap, !.ageHours = ageHours,
        !.audit = audit, !.volumeUsd = volumeUsd,
        !.socialLinks = [discord |-> UndefStr, telegram |-> UndefStr,
                         twitter |-> UndefStr, website |-> website],
        !.priceChange5M = change,
        !.transactions = [buys |-> buys, sells |-> 0] ]
Audits ==
    [mintable : BOOLEAN, freezable : BOOLEAN, honeypot : BOOLEAN,
     contractVerified : BOOLEAN]
Websites == {UndefStr, "https://t.io"}

\* entities that differ in every field the risk score reads
ScoredEntities ==
    { EntityOf(l, m, a, au, v, w, 2, 60) :
        l \in {0, 40, 80, 150, 500}, m \in {0, 1000},
        a \in {0, 12, 100, 500, 1000}, au \in Audits,
        v \in {500, 5000, 50000}, w \in Websites }

\* entities that differ in every field the thresholds of a preset read
CheckedEntities ==
    { EntityOf(l, m, a, [mintable |-> FALSE, freezable |-> FALSE,
                         honeypot |-> hp, contractVerified |-> TRUE],
               50000, w, c, b) :
        l \in {0, 50, 500}, m \in {0, 1000}, a \in {0, 1000},
        hp \in BOOLEAN, w \in Websites, c \in {0 - 20, 2, 20},
        b \in {5, 60} }

\* filter states the filter panel can produce: each of minVolume, maxAge
\* and minMarketCap is null ("Any") or one of the positive values on offer
ChainLists == { <<>>, <<"ETH">>, <<"SOL", "ETH">> }
FilterStates ==
    { [chains |-> c, minVolume |-> v, maxAge |-> a, minMarketCap |-> m,
       excludeHoneypots |-> h, combinedFilter |-> cf] :
        c \in ChainLists, v \in {NullNumber, 100000}, a \in {NullNumber, 12},
        m \in {NullNumber, 1000000}, h \in BOOLEAN,
        cf \in {NoFilter, "hodl", "custom"} }

\* the props a table is given: with or without filters, and each of
\* sortColumn and sortOrder supplied or not
SortColumns == {UndefStr, "price"}
SortOrders == {UndefStr, "asc"}
PropsGiven ==
    { Props(tb, TRUE, f, sc, so) :
        tb \in Tables, f \in FilterStates, sc \in SortColumns,
        so \in SortOrders }
    \cup { Props(tb, FALSE, DEFAULT_FILTERS, sc, so) :
        tb \in Tables, sc \in SortColumns, so \in SortOrders }

\* the props a table is given over time in the model: the default filters
\* with or without a sort
PropsOverTime(tb) ==
    { Props(tb, TRUE, DEFAULT_FILTERS, sc, so) :
        sc \in SortColumns, so \in SortOrders }

\* error messages of a rejected fetch
NoError == "null"
ErrorMessages == {"API Error"}

(* ------------------------------------------------------------------ *)
(* useTokenData.ts: state of one table instance                         *)
(* ------------------------------------------------------------------ *)
VARIABLES
    tokens,          \* useState: the externally visible list
    tokensMap,       \* tokensMapRef.current, the entries in insertion order
    loading,         \* useState
    error,           \* useState
    totalRows,       \* useState
    currentPage,     \* useState
    hasMore,         \* useState
    combinedFilter,  \* props: filters.combinedFilter
    pending,         \* snapshot requests awaiting their response
    now,             \* the clock read by new Date()
    last,            \* the operation handled last (what it named, what the
                     \* set held before it)
    wsService,       \* websocket.ts: the fields of the WebSocketService
    rooms,           \* the subscriptions the server holds for the socket
                     \* wsService.ws
    timers,          \* reconnect timers (setTimeout) that have not fired
    orphans,         \* sockets still open that wsService.ws no longer names
    hooks,           \* per table: the channel state of its useTokenData
    dropped,         \* the subscriptions the server held for the socket
                     \* that closed last
    paramsCall,      \* a call of applyCombinedFilterToParams: its
                     \* arguments and, once it has returned, its result
    call             \* a call of another function that only computes: the
                     \* function, its arguments and, once it has returned,
                     \* its result

\* the state of the table instance followed operation by operation
tableVars == << tokens, tokensMap, loading, error, totalRows, currentPage,
               hasMore, combinedFilter, pending, now, last >>

\* the state of the real-time channel and of the hooks' use of it
chanVars == << wsService, rooms, timers, orphans, hooks, dropped >>

\* the call of the parameter merge
paramVars == << paramsCall, call >>

vars == << tokens, tokensMap, loading, error, totalRows, currentPage, hasMore,
          combinedFilter, pending, now, last,
          wsService, rooms, timers, orphans, hooks, dropped, paramsCall,
          call >>

(* ------------------------------------------------------------------ *)
(* Map<string, TokenData>: the entries in insertion order               *)
(* ------------------------------------------------------------------ *)
IdsOf(list) == { list[i].id : i \in 1..Len(list) }

MapHas(m, id) == \E i \in 1..Len(m) : m[i].id = id

MapGet(m, id) == m[CHOOSE i \in 1..Len(m) : m[i].id = id]

\* m.set(id, token): a known key keeps its place, a new key goes last
MapSet(m, id, token) ==
    IF MapHas(m, id)
    THEN [i \in 1..Len(m) |-> IF m[i].id = id THEN token ELSE m[i]]
    ELSE Append(m, token)

\* list.forEach(token => m.set(token.id, token))
RECURSIVE MapSetAll(_, _)
MapSetAll(m, list) ==
    IF list = <<>> THEN m
    ELSE MapSetAll(MapSet(m, Head(list).id, Head(list)), Tail(list))

(* ------------------------------------------------------------------ *)
(* useTokenData.ts: loadData, the merge of a response                   *)
(* ------------------------------------------------------------------ *)
\* the list shown after a refresh (append = false) of the page newTokens
RefreshedList(newTokens, newMap) == newTokens

\* the count hasMore compares with totalRows after a refresh
RefreshedCount(newTokens, newMap) == Len(newTokens)

\* lines 88-116: the response (pairs, totalRows) of request req merged
\* when the clock shows t
loadDataMerge(map, req, pairs, rows, t) ==
    LET mapped == MapToTokens(pairs, t)
        newTokens == IF req.cf # NoFilter
                     THEN filterTokensByCombinedFilter(mapped, req.cf)
                     ELSE mapped
    IN  IF req.append
        THEN LET newMap == MapSetAll(map, newTokens) IN
             [ tokens |-> newMap, map |-> newMap, totalRows |-> rows,
               hasMore |-> (Len(pairs) > 0 /\ Len(newMap) < rows) ]
        ELSE LET newMap == MapSetAll(<<>>, newTokens) IN
             [ tokens |-> RefreshedList(newTokens, newMap), map |-> newMap,
               totalRows |-> rows,
               hasMore |-> (Len(pairs) > 0
                            /\ RefreshedCount(newTokens, newMap) < rows) ]

(* ------------------------------------------------------------------ *)
(* useTokenData.ts: handleWebSocketMessage                              *)
(* ------------------------------------------------------------------ *)
\* a filter that keeps the outliers
KeepOutliers(swaps) == swaps

\* swaps.filter(swap => !swap.isOutlier)
NonOutliers(swaps) == SelectSeq(swaps, LAMBDA swap : ~swap.isOutlier)

\* a match that takes every entry for the pair of the message
MatchesAny(token, pairAddress) == TRUE

\* lines 170 and 201: the entry a tick or pair-stats message is for
Matches(token, pairAddress) == token.pairAddress = pairAddress

\* lines 173-178: the entity a tick writes
TickedToken(token, newPrice, t) ==
    [token EXCEPT !.priceUsd = newPrice,
                  !.mcap = Mul(token.totalSupply, newPrice),
                  !.lastUpdated = t]

\* tokensMapRef.current.set(token.id, updatedToken) for every entry of the
\* list that matches; updated is the list after the update
RECURSIVE SetMatching(_, _, _)
SetMatching(m, updated, pairAddress) ==
    IF updated = <<>> THEN m
    ELSE SetMatching(
           IF Matches(Head(updated), pairAddress)
           THEN MapSet(m, Head(updated).id, Head(updated)) ELSE m,
           Tail(updated), pairAddress)

\* case 'tick'
HandleTick(list, map, pairAddress, swaps, t) ==
    LET good == NonOutliers(swaps) IN
    IF good = <<>> THEN [tokens |-> list, map |-> map]
    ELSE
      LET newPrice == parseFloat(good[Len(good)].priceToken1Usd)
          Upd(token) == TickedToken(token, newPrice, t)
          updatedTokens == [i \in 1..Len(list) |->
                              IF Matches(list[i], pairAddress)
                              THEN Upd(list[i]) ELSE list[i]]
      IN  [ tokens |-> updatedTokens,
            map |-> SetMatching(map, updatedTokens, pairAddress) ]

\* a pair-stats patch that flips the honeypot flag of the entity when the
\* payload reports a honeypot
PatchedTokenFlipping(token, pairData, migrationProgress, t) ==
    [token EXCEPT
        !.migrationPc = parseFloat(migrationProgress),
        !.audit = [ mintable |-> pairData.mintAuthorityRenounced,
                    freezable |-> pairData.freezeAuthorityRenounced,
                    honeypot |-> (token.audit.honeypot # pairData.token1IsHoneypot),
                    contractVerified |-> pairData.isVerified ],
        !.socialLinks = [ discord |-> OrUndefined(pairData.linkDiscord),
                          telegram |-> OrUndefined(pairData.linkTelegram),
                          twitter |-> OrUndefined(pairData.linkTwitter),
                          website |-> OrUndefined(pairData.linkWebsite) ],
        !.dexPaid = pairData.dexPaid,
        !.lastUpdated = t]

\* lines 203-220: the entity a pair-stats message writes
PatchedToken(token, pairData, migrationProgress, t) ==
    [token EXCEPT
        !.migrationPc = parseFloat(migrationProgress),
        !.audit = [ mintable |-> pairData.mintAuthorityRenounced,
                    freezable |-> pairData.freezeAuthorityRenounced,
                    honeypot |-> ~pairData.token1IsHoneypot,
                    contractVerified |-> pairData.isVerified ],
        !.socialLinks = [ discord |-> OrUndefined(pairData.linkDiscord),
                          telegram |-> OrUndefined(pairData.linkTelegram),
                          twitter |-> OrUndefined(pairData.linkTwitter),
                          website |-> OrUndefined(pairData.linkWebsite) ],
        !.dexPaid = pairData.dexPaid,
        !.lastUpdated = t]

\* case 'pair-stats'
HandlePairStats(list, map, msg, t) ==
    LET Upd(token) == PatchedToken(token, msg, msg.migrationProgress, t)
        updatedTokens == [i \in 1..Len(list) |->
                            IF Matches(list[i], msg.pairAddress)
                            THEN Upd(list[i]) ELSE list[i]]
    IN  [ tokens |-> updatedTokens,
          map |-> SetMatching(map, updatedTokens, msg.pairAddress) ]

\* updatedTokens.find(newToken => newToken.id === id)
HasRecord(updatedTokens, id) == MapHas(updatedTokens, id)
FindRecord(updatedTokens, id) ==
    updatedTokens[CHOOSE i \in 1..Len(updatedTokens) :
                    /\ updatedTokens[i].id = id
                    /\ \A j \in 1..(i - 1) : updatedTokens[j].id # id]

\* a comparison that lets an incoming entity of the same instant win
ReplacesWhenNotOlder(newTokenData, token) ==
    newTokenData.lastUpdated >= token.lastUpdated

\* line 247: the incoming entity replaces the stored one
Replaces(newTokenData, token) == newTokenData.lastUpdated > token.lastUpdated

\* lines 245-252: resultTokens.forEach, the entries that are replaced
RECURSIVE ReplaceExisting(_, _, _, _)
ReplaceExisting(list, map, updatedTokens, i) ==
    IF i > Len(list) THEN [tokens |-> list, map |-> map]
    ELSE IF HasRecord(updatedTokens, list[i].id)
            /\ Replaces(FindRecord(updatedTokens, list[i].id), list[i])
         THEN LET newTokenData == FindRecord(updatedTokens, list[i].id) IN
              ReplaceExisting([list EXCEPT ![i] = newTokenData],
                              MapSet(map, list[i].id, newTokenData),
                              updatedTokens, i + 1)
         ELSE ReplaceExisting(list, map, updatedTokens, i + 1)

\* lines 255-261: updatedTokens.forEach, the ids that are new
RECURSIVE AddNew(_, _, _)
AddNew(list, map, updatedTokens) ==
    IF updatedTokens = <<>> THEN [tokens |-> list, map |-> map]
    ELSE LET newToken == Head(updatedTokens) IN
         IF ~MapHas(map, newToken.id)
         THEN AddNew(Append(list, newToken),
                     MapSet(map, newToken.id, newToken), Tail(updatedTokens))
         ELSE AddNew(list, map, Tail(updatedTokens))

\* a scanner-pairs handler that takes the batch as the whole dataset
ScannerPairsAsSnapshot(list, map, pairs, t) ==
    [ tokens |-> MapSetAll(<<>>, MapToTokens(pairs, t)),
      map |-> MapSetAll(<<>>, MapToTokens(pairs, t)) ]

\* case 'scanner-pairs'
HandleScannerPairs(list, map, pairs, t) ==
    LET updatedTokens == MapToTokens(pairs, t)
        r == ReplaceExisting(list, map, updatedTokens, 1)
    IN  AddNew(r.tokens, r.map, updatedTokens)

(* ------------------------------------------------------------------ *)
(* websocket.ts: the WebSocketService that the table instances share    *)
(* ------------------------------------------------------------------ *)
\* private maxReconnectAttempts = 5
maxReconnectAttempts == 5

\* The event names, cut into the words that the service looks for.
SubscribePair == <<"subscribe", "-", "pair">>
UnsubscribePair == <<"un", "subscribe", "-", "pair">>
SubscribePairStats == <<"subscribe", "-", "pair", "-", "stats">>
UnsubscribePairStats == <<"un", "subscribe", "-", "pair", "-", "stats">>
ScannerFilter == <<"scanner", "-", "filter">>
UnsubscribeScannerFilter == <<"un", "subscribe", "-", "scanner", "-", "filter">>

\* part occurs in text at offset i
OccursAt(text, part, i) ==
    /\ i + Len(part) <= Len(text)
    /\ \A k \in 1..Len(part) : text[i + k] = part[k]

\* String.prototype.includes
Includes(text, part) == \E i \in 0..Len(text) : OccursAt(text, part, i)

\* String.prototype.replace(part, ''): the first occurrence is taken out
ReplaceWithEmpty(text, part) ==
    IF ~Includes(text, part) THEN text
    ELSE LET i == CHOOSE i \in 0..Len(text) :
                     /\ OccursAt(text, part, i)
                     /\ \A j \in 0..(i - 1) : ~OccursAt(text, part, j)
         IN  [k \in 1..(Len(text) - Len(part)) |->
                IF k <= i THEN text[k] ELSE text[k + Len(part)]]

\* an outgoing message; JSON.stringify keeps event and data
Message(event, data) == [event |-> event, data |-> data]

\* data of the pair and pair-stats messages for a pair (its token and chain
\* go with the pair)
PairData(pairAddress) == [pair |-> pairAddress]

\* what the server holds for a socket after it has received message: a
\* subscribe message enters its room, the unsubscribe message leaves it
ServerReceives(held, message) ==
    CASE message.event = SubscribePair ->
            held \cup { <<"pair", message.data>> }
      [] message.event = UnsubscribePair ->
            held \ { <<"pair", message.data>> }
      [] message.event = SubscribePairStats ->
            held \cup { <<"pair-stats", message.data>> }
      [] message.event = UnsubscribePairStats ->
            held \ { <<"pair-stats", message.data>> }
      [] message.event = ScannerFilter ->
            held \cup { <<"scanner-filter", message.data>> }
      [] message.event = UnsubscribeScannerFilter ->
            held \ { <<"scanner-filter", message.data>> }
      [] OTHER -> held

\* the service together with what the server holds for its socket
Channel(svc, held) == [svc |-> svc, rooms |-> held]

\* the subscriptions the service stores after message was sent
Stored(subscriptions, message) ==
    IF Includes(message.event, <<"subscribe">>)
       /\ ~Includes(message.event, <<"un", "subscribe">>)
    THEN subscriptions \cup {message}
    ELSE IF Includes(message.event, <<"un", "subscribe">>)
    THEN subscriptions \
           { Message(ReplaceWithEmpty(message.event, <<"un", "subscribe", "-">>),
                     message.data) }
    ELSE subscriptions

\* send(message)
send(ch, message) ==
    IF ch.svc.ws # "open" THEN ch
    ELSE Channel([ch.svc EXCEPT !.subscriptions = Stored(@, message)],
                 ServerReceives(ch.rooms, message))

\* the messages msgs sent one after the other
RECURSIVE SendAll(_, _)
SendAll(ch, msgs) ==
    IF msgs = <<>> THEN ch ELSE SendAll(send(ch, Head(msgs)), Tail(msgs))

\* the elements of a Set in some order of iteration
RECURSIVE SetToSeq(_)
SetToSeq(S) ==
    IF S = {} THEN <<>>
    ELSE LET x == CHOOSE x \in S : TRUE IN <<x>> \o SetToSeq(S \ {x})

\* resubscribeAll
resubscribeAll(ch) == SendAll(ch, SetToSeq(ch.svc.subscriptions))

\* the start of connect(): no socket is made while one is being made
connect(svc) ==
    IF svc.isConnecting \/ svc.ws = "connecting"
    THEN [svc |-> svc, started |-> FALSE]
    ELSE [svc |-> [svc EXCEPT !.isConnecting = TRUE, !.ws = "connecting"],
          started |-> TRUE]

\* a disconnect() after which the service goes on reconnecting
DisconnectStillReconnecting(svc) ==
    [svc EXCEPT !.subscriptions = {}, !.ws = "null"]

\* disconnect(): the fields of the service after it
disconnect(svc) ==
    [svc EXCEPT !.shouldReconnect = FALSE, !.subscriptions = {},
                !.ws = "null"]

(* ------------------------------------------------------------------ *)
(* useTokenData.ts: the hook's use of the service                       *)
(* ------------------------------------------------------------------ *)
\* the props of a table that is given neither filters nor a sort
PlainProps(tb) == Props(tb, FALSE, DEFAULT_FILTERS, UndefStr, UndefStr)

\* the pair and pair-stats messages, of events e1 and e2, for each key
RECURSIVE PairMessages(_, _, _)
PairMessages(keys, e1, e2) ==
    IF keys = <<>> THEN <<>>
    ELSE << Message(e1, PairData(Head(keys))), Message(e2, PairData(Head(keys))) >>
         \o PairMessages(Tail(keys), e1, e2)

\* the pair addresses of a list, in its order
PairsOf(list) == [i \in 1..Len(list) |-> list[i].pairAddress]

\* lines 131-151: the messages subscribeToTokens sends, in their order
SubscribeMessagesOf(ref, tokensToSubscribe, props) ==
    PairMessages(SetToSeq(ref), UnsubscribePair, UnsubscribePairStats)
    \o PairMessages(PairsOf(tokensToSubscribe), SubscribePair, SubscribePairStats)
    \o << Message(ScannerFilter, buildApiParams(props, 1)) >>

\* subscribeToTokens(tokensToSubscribe) of a table with these props, whose
\* subscriptionsRef holds ref: the channel and the subscriptionsRef after
\* it, and the messages it sent
subscribeToTokens(ch, ref, tokensToSubscribe, props) ==
    IF ch.svc.ws # "open" THEN [ch |-> ch, ref |-> ref, sent |-> <<>>]
    ELSE LET msgs == SubscribeMessagesOf(ref, tokensToSubscribe, props) IN
         [ ch |-> SendAll(ch, msgs),
           ref |-> { tokensToSubscribe[i].pairAddress :
                       i \in 1..Len(tokensToSubscribe) },
           sent |-> msgs ]

\* the effect of lines 271-275, run when the list of a table with these
\* props has become list
ListEffect(ch, ref, list, props) ==
    IF Len(list) > 0 THEN subscribeToTokens(ch, ref, list, props)
    ELSE [ch |-> ch, ref |-> ref, sent |-> <<>>]

\* a hook that is not mounted
NoHook ==
    [ mounted |-> "no", pc |-> "idle", connected |-> FALSE,
      hasUnsubscribe |-> FALSE, subscriptionsRef |-> {}, tokens |-> <<>>,
      props |-> PlainProps("trending"),
      sent |-> <<>> ]    \* the messages its effect of lines 271-275 sent last

\* the service as constructed, no table mounted
ChanInit ==
    /\ wsService = [ ws |-> "null", isConnecting |-> FALSE,
                     reconnectAttempts |-> 0, shouldReconnect |-> TRUE,
                     callbacks |-> {}, subscriptions |-> {} ]
    /\ rooms = {}
    /\ timers = 0
    /\ orphans = 0
    /\ hooks = [tb \in Tables |-> [NoHook EXCEPT !.props = PlainProps(tb)]]
    /\ dropped = {}

(* ------------------------------------------------------------------ *)
(* useTokenData.ts: the operations of one table instance                *)
(* ------------------------------------------------------------------ *)
Request(page, append, cf) == [page |-> page, append |-> append, cf |-> cf]

\* The operation handled last: its kind (op) and its input (arg: the
\* pairs of a merged page or of a scanner-pairs batch, the pair address
\* and swaps of a tick, the payload of a pair-stats event); for a
\* scanner-pairs event the ids the set held before it, each with its
\* lastUpdated (had); for a merged page the kind of the operation handled
\* before it (prev); for a pair-stats event whether the operation handled
\* before it was a pair-stats event with the same payload (again); the
\* pages merged since page 1 was last requested (mergedPages).
Last(op, arg) ==
    [ op |-> op, arg |-> arg,
      mergedPages |-> CASE op = "refresh" -> {1}
                        [] op \in {"refreshData", "changeFilter"} -> {}
                        [] OTHER -> last.mergedPages,
      had |-> IF op = "scanner-pairs"
              THEN { <<tokensMap[i].id, tokensMap[i].lastUpdated>> :
                        i \in 1..Len(tokensMap) }
              ELSE {},
      prev |-> IF op \in {"append", "refresh"} THEN last.op ELSE "",
      again |-> op = "pair-stats" /\ last.op = "pair-stats" /\ last.arg = arg ]

\* no input
NoArg == <<>>

RemoveAt(q, i) == [j \in 1..(Len(q) - 1) |-> IF j < i THEN q[j] ELSE q[j + 1]]

\* mount: the initial state of the hook, the first render's effects done
\* (lines 44-53, and the effect of lines 302-305 that requests page 1)
\* a call of the parameter merge with its arguments, before it returns
Call(baseParams, combinedFilterType) ==
    [baseParams |-> baseParams, combinedFilterType |-> combinedFilterType,
     result |-> baseParams, returned |-> FALSE]

\* the calls with which a behaviour may start
NoCall == { Call(<<>>, NoFilter) }
Calls == { Call(b, t) : b \in BaseParams, t \in FilterTypes }

\* a call of fn with its arguments, before it returns
Calling(fn, arg) == [fn |-> fn, arg |-> arg, result |-> <<>>, returned |-> FALSE]

\* no such call
Idle == { Calling("none", <<>>) }

\* the call returns with result
Returns(fn, result) ==
    /\ call.fn = fn
    /\ ~call.returned
    /\ call' = [call EXCEPT !.result = result, !.returned = TRUE]

InitAll(filterSet, calls, callings) ==
    /\ tokens = <<>>
    /\ tokensMap = <<>>
    /\ loading = TRUE
    /\ error = NoError
    /\ totalRows = 0
    /\ currentPage = 1
    /\ hasMore = TRUE
    /\ combinedFilter \in filterSet
    /\ pending = <<Request(1, FALSE, combinedFilter)>>
    /\ now = 1
    /\ last = [op |-> "mount", arg |-> NoArg, mergedPages |-> {}, had |-> {},
                prev |-> "",
                again |-> FALSE]
    /\ ChanInit
    /\ paramsCall \in calls
    /\ call \in callings

InitOver(filterSet, calls) == InitAll(filterSet, calls, Idle)

InitWith(filterSet) == InitOver(filterSet, NoCall)

\* a behaviour that is one call of a function
InitCalling(callings) == InitAll({NoFilter}, NoCall, callings)

\* loadData, from the response on: fetchScannerData resolves with
\* (pairs, totalRows) for the i-th request in flight
LoadSucceeds(i, pairs, rows) ==
    LET req == pending[i]
        r == loadDataMerge(tokensMap, req, pairs, rows, now)
    IN  /\ tokens' = r.tokens
        /\ tokensMap' = r.map
        /\ totalRows' = r.totalRows
        /\ hasMore' = r.hasMore
        /\ currentPage' = req.page
        /\ loading' = FALSE
        /\ pending' = RemoveAt(pending, i)
        /\ last' = IF req.append
                   THEN [Last("append", pairs) EXCEPT
                           !.mergedPages = @ \cup {req.page}]
                   ELSE Last("refresh", pairs)
        /\ UNCHANGED << error, combinedFilter, now >>

\* a failure handler that also empties the list and the map
LoadFailsClearing(i, message) ==
    /\ error' = message
    /\ loading' = FALSE
    /\ pending' = RemoveAt(pending, i)
    /\ tokens' = <<>>
    /\ tokensMap' = <<>>
    /\ last' = Last("failed", NoArg)
    /\ UNCHANGED << totalRows, hasMore, currentPage, combinedFilter, now >>

\* loadData, catch and finally: fetchScannerData rejects
LoadFails(i, message) ==
    /\ error' = message
    /\ loading' = FALSE
    /\ pending' = RemoveAt(pending, i)
    /\ last' = Last("failed", NoArg)
    /\ UNCHANGED << tokens, tokensMap, totalRows, hasMore, currentPage,
                    combinedFilter, now >>

\* loadData(1, false) up to the await: lines 79-86; the model follows at
\* most cap requests in flight
StartRefreshWithin(cap, cf) ==
    /\ Len(pending) < cap
    /\ loading' = TRUE
    /\ error' = NoError
    /\ currentPage' = 1
    /\ pending' = Append(pending, Request(1, FALSE, cf))

StartRefresh(cf) == StartRefreshWithin(MaxPending, cf)

\* refreshData
RefreshDataWithin(cap) ==
    /\ StartRefreshWithin(cap, combinedFilter)
    /\ last' = Last("refreshData", NoArg)
    /\ UNCHANGED << tokens, tokensMap, totalRows, hasMore, combinedFilter, now >>

RefreshData == RefreshDataWithin(MaxPending)

\* the consumer selects another strategy preset; loadData changes and the
\* effect of lines 302-305 requests page 1
ChangeFilterWithin(cap, cf) ==
    /\ cf # combinedFilter
    /\ combinedFilter' = cf
    /\ StartRefreshWithin(cap, cf)
    /\ last' = Last("changeFilter", NoArg)
    /\ UNCHANGED << tokens, tokensMap, totalRows, hasMore, now >>

ChangeFilter(cf) == ChangeFilterWithin(MaxPending, cf)

\* loadMore: a request for the next page, unless loading or no more
LoadMoreWithin(cap) ==
    /\ ~loading /\ hasMore
    /\ Len(pending) < cap
    /\ currentPage + 1 <= MaxPageNo
    /\ pending' = Append(pending, Request(currentPage + 1, TRUE, combinedFilter))
    /\ last' = Last("loadMore", NoArg)
    /\ UNCHANGED << tokens, tokensMap, loading, error, totalRows, currentPage,
                    hasMore, combinedFilter, now >>

LoadMore == LoadMoreWithin(MaxPending)

\* handleWebSocketMessage({event: 'tick', data: {pair: {pair}, swaps}})
Tick(pairAddress, swaps) ==
    LET r == HandleTick(tokens, tokensMap, pairAddress, swaps, now) IN
    /\ tokens' = r.tokens
    /\ tokensMap' = r.map
    /\ last' = Last("tick", <<pairAddress, swaps>>)
    /\ UNCHANGED << loading, error, totalRows, currentPage, hasMore,
                    combinedFilter, pending, now >>

\* handleWebSocketMessage({event: 'pair-stats', data: {pair, migrationProgress}})
PairStats(msg) ==
    LET r == HandlePairStats(tokens, tokensMap, msg, now) IN
    /\ tokens' = r.tokens
    /\ tokensMap' = r.map
    /\ last' = Last("pair-stats", <<msg>>)
    /\ UNCHANGED << loading, error, totalRows, currentPage, hasMore,
                    combinedFilter, pending, now >>

\* handleWebSocketMessage({event: 'scanner-pairs', data: {results: {pairs}}});
\* asOf is the time at which the server read the records it sends, which
\* no field of the event carries
ScannerPairs(pairs, asOf) ==
    LET r == HandleScannerPairs(tokens, tokensMap, pairs, now) IN
    /\ asOf \in 0..now
    /\ tokens' = r.tokens
    /\ tokensMap' = r.map
    /\ last' = Last("scanner-pairs", pairs)
    /\ UNCHANGED << loading, error, totalRows, currentPage, hasMore,
                    combinedFilter, pending, now >>

\* time passes
Advance ==
    /\ now < MaxTime
    /\ now' = now + 1
    /\ UNCHANGED << tokens, tokensMap, loading, error, totalRows, currentPage,
                    hasMore, combinedFilter, pending, last >>

\* a page of GET /scanner, or the pairs of a scanner-pairs event, over the
\* server records recs
PagesOf(recs) == SeqsUpTo(recs, MaxPage)

CleanRecords == { ScannerResult(id, "clean") : id \in Ids }
CoreRecords == CleanRecords \cup { ScannerResult("A", "risky") }
OkSwap == [priceToken1Usd |-> Num(3), isOutlier |-> FALSE]
CoreStats == { PairStatsMsg(id, "clean") : id \in Ids }

(* Spec: every operation of a table instance without a strategy preset, *)
(* on well-formed records of one shape per pair.                         *)
Init == InitWith({NoFilter})

Next ==
    \/ /\ \E i \in 1..Len(pending), pairs \in PagesOf(CleanRecords),
             rows \in 0..MaxTotal :
             LoadSucceeds(i, pairs, rows)
       /\ UNCHANGED << chanVars, paramVars >>
    \/ /\ \E i \in 1..Len(pending), message \in ErrorMessages : LoadFails(i, message)
       /\ UNCHANGED << chanVars, paramVars >>
    \/ /\ RefreshData
       /\ UNCHANGED << chanVars, paramVars >>
    \/ /\ LoadMore
       /\ UNCHANGED << chanVars, paramVars >>
    \/ /\ \E pairAddress \in Ids : Tick(pairAddress, <<OkSwap>>)
       /\ UNCHANGED << chanVars, paramVars >>
    \/ /\ \E msg \in CoreStats : PairStats(msg)
       /\ UNCHANGED << chanVars, paramVars >>
    \/ /\ \E pairs \in PagesOf(CleanRecords), asOf \in 0..MaxTime :
             ScannerPairs(pairs, asOf)
       /\ UNCHANGED << chanVars, paramVars >>
    \/ /\ Advance
       /\ UNCHANGED << chanVars, paramVars >>

Spec == Init /\ [][Next]_vars

(* SpecScanner: snapshot loads, ticks and scanner-pairs events over      *)
(* records of two shapes for a pair.                                     *)
NextScanner ==
    \/ /\ \E i \in 1..Len(pending), pairs \in PagesOf(CoreRecords) :
             LoadSucceeds(i, pairs, MaxTotal)
       /\ UNCHANGED << chanVars, paramVars >>
    \/ /\ RefreshData
       /\ UNCHANGED << chanVars, paramVars >>
    \/ /\ LoadMore
       /\ UNCHANGED << chanVars, paramVars >>
    \/ /\ \E pairAddress \in Ids : Tick(pairAddress, <<OkSwap>>)
       /\ UNCHANGED << chanVars, paramVars >>
    \/ /\ \E pairs \in PagesOf(CoreRecords), asOf \in 0..MaxTime :
             ScannerPairs(pairs, asOf)
       /\ UNCHANGED << chanVars, paramVars >>
    \/ /\ Advance
       /\ UNCHANGED << chanVars, paramVars >>

SpecScanner == Init /\ [][NextScanner]_vars

(* SpecPatch: the real-time patches of single entities, ticks and        *)
(* pair-stats, over every swap list and payload, on refreshed pages.      *)
NextPatch ==
    \/ /\ \E i \in 1..Len(pending), pairs \in PagesOf(CoreRecords) :
             LoadSucceeds(i, pairs, MaxTotal)
       /\ UNCHANGED << chanVars, paramVars >>
    \/ /\ RefreshData
       /\ UNCHANGED << chanVars, paramVars >>
    \/ /\ \E pairAddress \in Ids, swaps \in SwapLists :
             Tick(pairAddress, swaps)
       /\ UNCHANGED << chanVars, paramVars >>
    \/ /\ \E msg \in PairStatsMsgs : PairStats(msg)
       /\ UNCHANGED << chanVars, paramVars >>
    \/ /\ Advance
       /\ UNCHANGED << chanVars, paramVars >>

SpecPatch == Init /\ [][NextPatch]_vars

(* SpecPaging: paging under a strategy preset, with ticks interleaved.   *)
InitPaging == InitWith(FilterChoices)

NextPaging ==
    \/ /\ \E i \in 1..Len(pending), pairs \in PagesOf(CoreRecords),
             rows \in 0..MaxTotal :
             LoadSucceeds(i, pairs, rows)
       /\ UNCHANGED << chanVars, paramVars >>
    \/ /\ \E i \in 1..Len(pending), message \in ErrorMessages : LoadFails(i, message)
       /\ UNCHANGED << chanVars, paramVars >>
    \/ /\ RefreshData
       /\ UNCHANGED << chanVars, paramVars >>
    \/ /\ \E cf \in FilterChoices : ChangeFilter(cf)
       /\ UNCHANGED << chanVars, paramVars >>
    \/ /\ LoadMore
       /\ UNCHANGED << chanVars, paramVars >>
    \/ /\ \E pairAddress \in Ids : Tick(pairAddress, <<OkSwap>>)
       /\ UNCHANGED << chanVars, paramVars >>
    \/ /\ \E pairs \in PagesOf(CleanRecords) : ScannerPairs(pairs, now)
       /\ UNCHANGED << chanVars, paramVars >>

SpecPaging == InitPaging /\ [][NextPaging]_vars

(* SpecPreset: a table instance under a strategy preset that stays, fed  *)
(* by snapshot pages and by scanner-pairs events over records of two     *)
(* shapes for a pair.                                                     *)
NextPreset ==
    \/ /\ \E i \in 1..Len(pending), pairs \in PagesOf(CoreRecords) :
             LoadSucceeds(i, pairs, MaxTotal)
       /\ UNCHANGED << chanVars, paramVars >>
    \/ /\ RefreshData
       /\ UNCHANGED << chanVars, paramVars >>
    \/ /\ LoadMore
       /\ UNCHANGED << chanVars, paramVars >>
    \/ /\ \E pairs \in PagesOf(CoreRecords) : ScannerPairs(pairs, now)
       /\ UNCHANGED << chanVars, paramVars >>
    \/ /\ Advance
       /\ UNCHANGED << chanVars, paramVars >>

SpecPreset == InitPaging /\ [][NextPreset]_vars

(* SpecFlight: snapshot requests that overlap: loads, refreshes, filter  *)
(* changes and load-more calls while other requests are in flight.       *)
NextFlight ==
    \/ /\ \E i \in 1..Len(pending), pairs \in PagesOf(CleanRecords),
             rows \in 0..MaxTotal :
             LoadSucceeds(i, pairs, rows)
       /\ UNCHANGED << chanVars, paramVars >>
    \/ /\ \E i \in 1..Len(pending), message \in ErrorMessages : LoadFails(i, message)
       /\ UNCHANGED << chanVars, paramVars >>
    \/ /\ RefreshDataWithin(MaxInFlight)
       /\ UNCHANGED << chanVars, paramVars >>
    \/ /\ \E cf \in FilterChoices : ChangeFilterWithin(MaxInFlight, cf)
       /\ UNCHANGED << chanVars, paramVars >>
    \/ /\ LoadMoreWithin(MaxInFlight)
       /\ UNCHANGED << chanVars, paramVars >>

SpecFlight == Init /\ [][NextFlight]_vars

(* ------------------------------------------------------------------ *)
(* SpecParams: the parameter merge, applied to every base parameter      *)
(* object and every preset name.                                         *)
(* ------------------------------------------------------------------ *)
InitParams == InitOver({NoFilter}, Calls)

\* the call returns
ApplyCombinedFilter ==
    /\ ~paramsCall.returned
    /\ paramsCall' = [paramsCall EXCEPT
                    !.result = applyCombinedFilterToParams(
                                   paramsCall.baseParams,
                                   paramsCall.combinedFilterType),
                    !.returned = TRUE]
    /\ UNCHANGED << tableVars, chanVars, call >>

NextParams == ApplyCombinedFilter

SpecParams == InitParams /\ [][NextParams]_vars

(* ------------------------------------------------------------------ *)
(* SpecBuild: the request parameters, built for every props and page.   *)
(* ------------------------------------------------------------------ *)
InitBuild ==
    InitCalling({ Calling(fn, <<props, page>>) :
                    fn \in {"buildApiParamsWithCombinedFilters",
                            "buildApiParams"},
                    props \in PropsGiven, page \in 1..MaxPageNo })

\* buildApiParamsWithCombinedFilters(filters, tableType, page) returns
BuildWithCombinedFilters ==
    /\ Returns("buildApiParamsWithCombinedFilters",
               buildApiParamsWithCombinedFilters(
                   call.arg[1].filters, call.arg[1].tableType, call.arg[2]))
    /\ UNCHANGED << tableVars, chanVars, paramsCall >>

\* the hook's buildApiParams(page) returns
BuildApiParams ==
    /\ Returns("buildApiParams", buildApiParams(call.arg[1], call.arg[2]))
    /\ UNCHANGED << tableVars, chanVars, paramsCall >>

NextBuild ==
    \/ BuildWithCombinedFilters
    \/ BuildApiParams

SpecBuild == InitBuild /\ [][NextBuild]_vars

(* ------------------------------------------------------------------ *)
(* SpecChecks: the strategy checks and the risk score, applied to        *)
(* entities and preset names.                                            *)
(* ------------------------------------------------------------------ *)
InitChecks ==
    InitCalling({ Calling("passesAdditionalChecks", <<token, type>>) :
                    token \in CheckedEntities, type \in FilterTypes }
                \cup { Calling("calculateRiskScore", <<token>>) :
                    token \in ScoredEntities })

\* passesAdditionalChecks(token, combinedFilterType) returns
PassesAdditionalChecks ==
    /\ Returns("passesAdditionalChecks",
               passesAdditionalChecks(call.arg[1], call.arg[2]))
    /\ UNCHANGED << tableVars, chanVars, paramsCall >>

\* calculateRiskScore(token) returns
CalculateRiskScore ==
    /\ Returns("calculateRiskScore", calculateRiskScore(call.arg[1]))
    /\ UNCHANGED << tableVars, chanVars, paramsCall >>

NextChecks ==
    \/ PassesAdditionalChecks
    \/ CalculateRiskScore

SpecChecks == InitChecks /\ [][NextChecks]_vars

(* ------------------------------------------------------------------ *)
(* SpecMcap: the market cap of every record.                            *)
(* ------------------------------------------------------------------ *)
InitMcap ==
    InitCalling({ Calling("calculateMarketCap", <<result>>) :
                    result \in McapRecords })

\* calculateMarketCap(result) returns
CalculateMarketCap ==
    /\ Returns("calculateMarketCap", calculateMarketCap(call.arg[1]))
    /\ UNCHANGED << tableVars, chanVars, paramsCall >>

NextMcap == CalculateMarketCap

SpecMcap == InitMcap /\ [][NextMcap]_vars

(* ------------------------------------------------------------------ *)
(* The table instances on the shared service: operations                *)
(* ------------------------------------------------------------------ *)
\* pages of at most MaxShown records
ShortPages == SeqsUpTo(CleanRecords, MaxShown)

\* wsService.subscribe(handleWebSocketMessage) by the hooks of the tables
\* in tbs, each keeping the function that unsubscribes
Registered(hs, tbs, isConnected) ==
    [tb \in Tables |->
        IF tb \in tbs
        THEN [hs[tb] EXCEPT !.pc = "ready", !.connected = isConnected,
                            !.hasUnsubscribe = TRUE]
        ELSE hs[tb]]

\* the tables whose initWebSocket awaits the promise of connect()
Awaiting == { tb \in Tables : hooks[tb].pc = "awaiting" }

\* connect() called by caller, a table or the reconnect timer: a socket is
\* made unless one is being made
Connecting(c) ==
    /\ c.started /\ wsService.ws = "open" => orphans < MaxOrphans
    /\ rooms' = IF c.started THEN {} ELSE rooms
    /\ orphans' = IF c.started /\ wsService.ws = "open"
                  THEN orphans + 1 ELSE orphans

\* a table mounts: the effects of lines 271-305 run; initWebSocket calls
\* connect() and goes on at once if connect() returns a resolved promise
Mount(tb) ==
    LET c == connect(wsService) IN
    /\ hooks[tb].mounted = "no"
    /\ Connecting(c)
    /\ wsService' = IF c.started THEN c.svc
                    ELSE [wsService EXCEPT !.callbacks = @ \cup {tb}]
    /\ hooks' = IF c.started
                THEN [hooks EXCEPT ![tb] = [hooks[tb] EXCEPT !.mounted = "yes",
                                                          !.pc = "awaiting"]]
                ELSE Registered([hooks EXCEPT ![tb].mounted = "yes"], {tb}, TRUE)
    /\ UNCHANGED << timers, dropped >>
    /\ UNCHANGED << tableVars, paramVars >>

\* ws.onopen: resubscribeAll, then the promise of connect() resolves and
\* every initWebSocket that awaits it goes on (lines 284-285)
OnOpen ==
    LET opened == [wsService EXCEPT !.ws = "open", !.isConnecting = FALSE,
                                    !.reconnectAttempts = 0]
        ch == resubscribeAll(Channel(opened, rooms))
    IN  /\ wsService.ws = "connecting"
        /\ wsService' = [ch.svc EXCEPT !.callbacks = @ \cup Awaiting]
        /\ rooms' = ch.rooms
        /\ hooks' = Registered(hooks, Awaiting, TRUE)
        /\ UNCHANGED << timers, orphans, dropped >>
        /\ UNCHANGED << tableVars, paramVars >>

\* ws.onerror while connecting: the promise of connect() rejects and every
\* initWebSocket that awaits it takes its catch (lines 286-289)
OnError ==
    /\ wsService.ws = "connecting"
    /\ wsService' = [wsService EXCEPT !.ws = "errored", !.isConnecting = FALSE]
    /\ hooks' = [tb \in Tables |->
                    IF tb \in Awaiting
                    THEN [hooks[tb] EXCEPT !.pc = "failed", !.connected = FALSE]
                    ELSE hooks[tb]]
    /\ UNCHANGED << rooms, timers, orphans, dropped >>
    /\ UNCHANGED << tableVars, paramVars >>

\* the body of ws.onclose: scheduleReconnect while attempts remain
OnCloseHandler ==
    /\ wsService.shouldReconnect
         /\ wsService.reconnectAttempts < maxReconnectAttempts
         => timers < MaxTimers
    /\ timers' = IF wsService.shouldReconnect
                    /\ wsService.reconnectAttempts < maxReconnectAttempts
                 THEN timers + 1 ELSE timers

\* a close that does not count the reconnect it schedules
ClosedUncounted(svc) == [svc EXCEPT !.isConnecting = FALSE]

\* the service after the body of ws.onclose
Closed(svc) ==
    [svc EXCEPT !.isConnecting = FALSE,
                !.reconnectAttempts =
                    IF svc.shouldReconnect
                       /\ svc.reconnectAttempts < maxReconnectAttempts
                    THEN @ + 1 ELSE @]

\* ws.onclose of the socket wsService.ws
OnClose ==
    /\ wsService.ws \in {"open", "errored"}
    /\ OnCloseHandler
    /\ wsService' = [Closed(wsService) EXCEPT !.ws = "closed"]
    /\ dropped' = IF wsService.ws = "open" THEN rooms ELSE dropped
    /\ rooms' = {}
    /\ UNCHANGED << orphans, hooks >>
    /\ UNCHANGED << tableVars, paramVars >>

\* ws.onclose of a socket that wsService.ws no longer names
OrphanCloses ==
    /\ orphans > 0
    /\ OnCloseHandler
    /\ orphans' = orphans - 1
    /\ wsService' = Closed(wsService)
    /\ UNCHANGED << rooms, hooks, dropped >>
    /\ UNCHANGED << tableVars, paramVars >>

\* the timer of scheduleReconnect fires: connect()
TimerFires ==
    LET c == IF wsService.shouldReconnect THEN connect(wsService)
             ELSE [svc |-> wsService, started |-> FALSE]
    IN  /\ timers > 0
        /\ timers' = timers - 1
        /\ Connecting(c)
        /\ wsService' = c.svc
        /\ UNCHANGED << hooks, dropped >>
        /\ UNCHANGED << tableVars, paramVars >>

\* disconnect() is called: the socket, if there is one that has not closed,
\* is closed and no longer named; its close event comes later
Disconnect ==
    LET live == wsService.ws \in {"open", "errored"} IN
    /\ live => orphans < MaxOrphans
    /\ orphans' = IF live THEN orphans + 1 ELSE orphans
    /\ wsService' = disconnect(wsService)
    /\ rooms' = {}
    /\ UNCHANGED << timers, hooks, dropped >>
    /\ UNCHANGED << tableVars, paramVars >>

\* the error and close events of a socket that disconnect() closed while it
\* was connecting: the promise of connect() rejects
AttemptAborted ==
    /\ wsService.ws = "null"
    /\ wsService.isConnecting
    /\ OnCloseHandler
    /\ wsService' = Closed(wsService)
    /\ hooks' = [tb \in Tables |->
                    IF tb \in Awaiting
                    THEN [hooks[tb] EXCEPT !.pc = "failed", !.connected = FALSE]
                    ELSE hooks[tb]]
    /\ UNCHANGED << rooms, orphans, dropped >>
    /\ UNCHANGED << tableVars, paramVars >>

\* a table unmounts: the cleanup of lines 294-298
Unmount(tb) ==
    /\ hooks[tb].mounted = "yes"
    /\ hooks' = [hooks EXCEPT ![tb].mounted = "gone"]
    /\ wsService' = IF hooks[tb].hasUnsubscribe
                    THEN [wsService EXCEPT !.callbacks = @ \ {tb}]
                    ELSE wsService
    /\ UNCHANGED << rooms, timers, orphans, dropped >>
    /\ UNCHANGED << tableVars, paramVars >>

\* a refresh of table tb resolves with pairs: setTokens(newTokens), then
\* the effect of lines 271-275
TableLoads(tb, pairs) ==
    LET list == loadDataMerge(<<>>, Request(1, FALSE, NoFilter), pairs,
                              Len(pairs), now).tokens
        r == ListEffect(Channel(wsService, rooms), hooks[tb].subscriptionsRef,
                        list, hooks[tb].props)
    IN  /\ hooks[tb].mounted = "yes"
        /\ hooks' = [hooks EXCEPT ![tb].tokens = list,
                                  ![tb].subscriptionsRef = r.ref,
                                  ![tb].sent = r.sent]
        /\ wsService' = r.ch.svc
        /\ rooms' = r.ch.rooms
        /\ UNCHANGED << timers, orphans, dropped >>
        /\ UNCHANGED << tableVars, paramVars >>

(* SpecChannel: one table on the service, through drops of the socket   *)
(* and reconnects.                                                       *)
NextChannel ==
    \/ Mount("trending")
    \/ OnOpen
    \/ OnError
    \/ OnClose
    \/ TimerFires
    \/ Unmount("trending")
    \/ \E pairs \in ShortPages : TableLoads("trending", pairs)

SpecChannel == Init /\ [][NextChannel]_vars

\* the consumer renders table tb with other filters or another sort:
\* buildApiParams and with it subscribeToTokens are made anew, so the effect
\* of lines 271-275 runs on the list as it is
PropsChange(tb, props) ==
    LET r == ListEffect(Channel(wsService, rooms), hooks[tb].subscriptionsRef,
                        hooks[tb].tokens, props)
    IN  /\ hooks[tb].mounted = "yes"
        /\ props # hooks[tb].props
        /\ hooks' = [hooks EXCEPT ![tb].props = props,
                                  ![tb].subscriptionsRef = r.ref,
                                  ![tb].sent = r.sent]
        /\ wsService' = r.ch.svc
        /\ rooms' = r.ch.rooms
        /\ UNCHANGED << timers, orphans, dropped >>
        /\ UNCHANGED << tableVars, paramVars >>

(* SpecSort: one table on the service, its filters and sort changing.     *)
NextSort ==
    \/ Mount("trending")
    \/ OnOpen
    \/ OnError
    \/ \E pairs \in ShortPages : TableLoads("trending", pairs)
    \/ \E props \in PropsOverTime("trending") : PropsChange("trending", props)

SpecSort == Init /\ [][NextSort]_vars

\* a tick for pairAddress reaches the callback of table tb, which holds the
\* pair's subscription: case 'tick', then, if setTokens was given a new
\* list, the effect of lines 271-275
TableTick(tb, pairAddress, swaps) ==
    LET list == HandleTick(hooks[tb].tokens, <<>>, pairAddress, swaps, now).tokens
        found == /\ NonOutliers(swaps) # <<>>
                 /\ \E i \in 1..Len(hooks[tb].tokens) :
                       Matches(hooks[tb].tokens[i], pairAddress)
        r == IF found
             THEN ListEffect(Channel(wsService, rooms),
                             hooks[tb].subscriptionsRef, list, hooks[tb].props)
             ELSE [ ch |-> Channel(wsService, rooms),
                    ref |-> hooks[tb].subscriptionsRef, sent |-> <<>> ]
    IN  /\ wsService.ws = "open"
        /\ tb \in wsService.callbacks
        /\ <<"pair", PairData(pairAddress)>> \in rooms
        /\ hooks' = [hooks EXCEPT ![tb].tokens = list,
                                  ![tb].subscriptionsRef = r.ref,
                                  ![tb].sent = r.sent]
        /\ wsService' = r.ch.svc
        /\ rooms' = r.ch.rooms
        /\ UNCHANGED << timers, orphans, dropped >>
        /\ UNCHANGED << tableVars, paramVars >>

\* a pair-stats event reaches the callback of table tb, which holds the
\* pair's subscription: case 'pair-stats', then, if setTokens was given a
\* new list, the effect of lines 271-275
TablePairStats(tb, msg) ==
    LET list == HandlePairStats(hooks[tb].tokens, <<>>, msg, now).tokens
        found == \E i \in 1..Len(hooks[tb].tokens) :
                    Matches(hooks[tb].tokens[i], msg.pairAddress)
        r == IF found
             THEN ListEffect(Channel(wsService, rooms),
                             hooks[tb].subscriptionsRef, list, hooks[tb].props)
             ELSE [ ch |-> Channel(wsService, rooms),
                    ref |-> hooks[tb].subscriptionsRef, sent |-> <<>> ]
    IN  /\ wsService.ws = "open"
        /\ tb \in wsService.callbacks
        /\ <<"pair-stats", PairData(msg.pairAddress)>> \in rooms
        /\ hooks' = [hooks EXCEPT ![tb].tokens = list,
                                  ![tb].subscriptionsRef = r.ref,
                                  ![tb].sent = r.sent]
        /\ wsService' = r.ch.svc
        /\ rooms' = r.ch.rooms
        /\ UNCHANGED << timers, orphans, dropped >>
        /\ UNCHANGED << tableVars, paramVars >>

(* SpecTraffic: one table on the service, its entities patched by the    *)
(* ticks and pair-stats events of the pairs it has subscribed to.        *)
NextTraffic ==
    \/ Mount("trending")
    \/ OnOpen
    \/ OnError
    \/ \E pairs \in ShortPages : TableLoads("trending", pairs)
    \/ \E pairAddress \in Ids, swaps \in SwapLists :
          TableTick("trending", pairAddress, swaps)
    \/ \E msg \in PairStatsMsgs : TablePairStats("trending", msg)
    \/ /\ Advance
       /\ UNCHANGED << chanVars, paramVars >>

SpecTraffic == Init /\ [][NextTraffic]_vars

\* the effect of lines 271-275 of each table of tbs, in the order of tbs,
\* on the lists that hs holds
RECURSIVE ListEffects(_, _, _)
ListEffects(ch, hs, tbs) ==
    IF tbs = <<>> THEN [ch |-> ch, hooks |-> hs]
    ELSE LET tb == Head(tbs)
             r == ListEffect(ch, hs[tb].subscriptionsRef, hs[tb].tokens,
                             hs[tb].props)
         IN  ListEffects(r.ch,
                         [hs EXCEPT ![tb].subscriptionsRef = r.ref,
                                    ![tb].sent = r.sent],
                         Tail(tbs))

\* the filters of the scanner-filter subscriptions the server holds
FiltersHeld == { r[2] : r \in { x \in rooms : x[1] = "scanner-filter" } }

\* the server sends a scanner-pairs event for a scanner-filter subscription
\* it holds: onmessage hands it to every callback (websocket.ts 45-52),
\* case 'scanner-pairs' of each, then the effect of lines 271-275 of the
\* tables whose list changed. The pages of the model name no pair twice,
\* so that the map of a table holds the entries of its list.
ScannerPairsArrives(filter, pairs) ==
    LET Merged(tb) ==
            IF tb \in wsService.callbacks
            THEN HandleScannerPairs(hooks[tb].tokens, hooks[tb].tokens,
                                    pairs, now).tokens
            ELSE hooks[tb].tokens
        hs == [tb \in Tables |-> [hooks[tb] EXCEPT !.tokens = Merged(tb)]]
        changed == SelectSeq(<<"trending", "new">>,
                             LAMBDA tb : Merged(tb) # hooks[tb].tokens)
        r == ListEffects(Channel(wsService, rooms), hs, changed)
    IN  /\ wsService.ws = "open"
        /\ filter \in FiltersHeld
        /\ hooks' = r.hooks
        /\ wsService' = r.ch.svc
        /\ rooms' = r.ch.rooms
        /\ UNCHANGED << timers, orphans, dropped >>
        /\ UNCHANGED << tableVars, paramVars >>

(* SpecEvents: the two tables of the application on the shared service,  *)
(* receiving the scanner-pairs events of their scanner-filter            *)
(* subscriptions.                                                        *)
NextEvents ==
    \/ \E tb \in Tables : Mount(tb)
    \/ OnOpen
    \/ OnError
    \/ \E tb \in Tables, pairs \in ShortPages : TableLoads(tb, pairs)
    \/ \E filter \in FiltersHeld, pairs \in ShortPages :
          ScannerPairsArrives(filter, pairs)

SpecEvents == Init /\ [][NextEvents]_vars

(* SpecLate: the table of SpecSort, whose page may arrive before the     *)
(* socket opens; the open event of a socket that does not fail is        *)
(* delivered.                                                            *)
SpecLate == Init /\ [][NextSort]_vars /\ WF_vars(OnOpen)

(* SpecDisconnect: one table on the service, with disconnect() called at *)
(* any time.                                                             *)
NextDisconnect ==
    \/ Mount("trending")
    \/ OnOpen
    \/ OnError
    \/ OnClose
    \/ OrphanCloses
    \/ TimerFires
    \/ Disconnect
    \/ AttemptAborted
    \/ \E pairs \in ShortPages : TableLoads("trending", pairs)

SpecDisconnect == Init /\ [][NextDisconnect]_vars

(* SpecTables: the two tables of the application on the shared service,  *)
(* while the socket the service names does not close.                    *)
NextTables ==
    \/ \E tb \in Tables : Mount(tb)
    \/ OnOpen
    \/ OnError
    \/ OrphanCloses
    \/ TimerFires
    \/ \E tb \in Tables : Unmount(tb)
    \/ \E tb \in Tables, pairs \in ShortPages : TableLoads(tb, pairs)

SpecTables == Init /\ [][NextTables]_vars

(* ------------------------------------------------------------------ *)
(* Properties                                                           *)
(* ------------------------------------------------------------------ *)
\* the price a tick with the swap OkSwap writes
TickPrice == parseFloat(OkSwap.priceToken1Usd)

\* the pair addresses a page or batch names
PageIds(pairs) == { pairs[k].pairAddress : k \in 1..Len(pairs) }

\* the last index of a page that names id, among the indices in ks
LastIndexOf(pairs, ks, id) ==
    CHOOSE k \in ks : /\ pairs[k].pairAddress = id
                      /\ \A j \in ks : pairs[j].pairAddress = id => j <= k

\* the first index of a batch that names id
FirstIndexOf(pairs, id) ==
    CHOOSE k \in 1..Len(pairs) :
        /\ pairs[k].pairAddress = id
        /\ \A j \in 1..Len(pairs) : pairs[j].pairAddress = id => k <= j

\* a list of entities with the time stamps taken out
NoStamp(list) == [i \in 1..Len(list) |-> [list[i] EXCEPT !.lastUpdated = 0]]

\* C1: no two entries of the visible token list have the same id, whatever
\* the pages and batches held (a page may name a pair more than once).
C1_VisibleIdsUnique ==
    \A i, j \in 1..Len(tokens) : tokens[i].id = tokens[j].id => i = j

Decided(token, record, t) ==
    LET incoming == scannerResultToToken(record, t) IN
    IF token.lastUpdated >= incoming.lastUpdated THEN token ELSE incoming

\* C3 (as stated): when a scanner-pairs event is handled, for every record
\* of the batch whose id is in the canonical set, the stored entity is kept
\* if its lastUpdated is not older than the incoming entity's, and is the
\* incoming entity otherwise; the same for the entries of the visible list.
C3_EveryRecordDecides ==
    [][ (last'.op = "scanner-pairs" /\ ScannerPairs(last'.arg, now)) =>
          \A k \in 1..Len(last'.arg) :
             LET record == last'.arg[k] IN
             /\ MapHas(tokensMap, record.pairAddress) =>
                   MapGet(tokensMap', record.pairAddress)
                     = Decided(MapGet(tokensMap, record.pairAddress), record, now)
             /\ \A i \in 1..Len(tokens) :
                   tokens[i].id = record.pairAddress =>
                      tokens'[i] = Decided(tokens[i], record, now) ]_vars

\* C3 (amended): when a scanner-pairs event is handled, for every id of the
\* batch that is in the canonical set, the first record of the batch with
\* that id decides: the stored entity is kept if its lastUpdated is not
\* older than the incoming entity's, and is the incoming entity otherwise;
\* the same for the entries of the visible list.
C3_FirstRecordDecides ==
    [][ (last'.op = "scanner-pairs" /\ ScannerPairs(last'.arg, now)) =>
          \A id \in PageIds(last'.arg) :
             LET record == last'.arg[FirstIndexOf(last'.arg, id)] IN
             /\ MapHas(tokensMap, id) =>
                   MapGet(tokensMap', id)
                     = Decided(MapGet(tokensMap, id), record, now)
             /\ \A i \in 1..Len(tokens) :
                   tokens[i].id = id =>
                      tokens'[i] = Decided(tokens[i], record, now) ]_vars

\* C3 witness: a scanner-pairs event has been handled whose batch named
\* two stored ids: one whose entity was older than the event, which now
\* carries the event's time, and one that a tick had updated at the
\* instant of the event, which has kept the tick's price.
C3_Witness ==
    /\ last.op = "scanner-pairs"
    /\ \E a, b \in last.had :
          /\ a[1] \in PageIds(last.arg) /\ b[1] \in PageIds(last.arg)
          /\ MapGet(tokensMap, a[1]).lastUpdated > a[2]
          /\ MapGet(tokensMap, b[1]).lastUpdated = b[2]
          /\ MapGet(tokensMap, b[1]).priceUsd = TickPrice

\* C4 (as stated): a scanner-pairs event whose records were read by the
\* server at asOf leaves every entity unchanged that a tick has priced and
\* whose lastUpdated is later than asOf, and adds the new ids of its batch.
C4_StaleBatchKeepsTick ==
    [][ \A asOf \in 0..MaxTime :
          (last'.op = "scanner-pairs" /\ ScannerPairs(last'.arg, asOf)) =>
             /\ \A i \in 1..Len(tokensMap) :
                   ( /\ tokensMap[i].id \in PageIds(last'.arg)
                     /\ tokensMap[i].priceUsd = TickPrice
                     /\ asOf < tokensMap[i].lastUpdated )
                   => MapGet(tokensMap', tokensMap[i].id) = tokensMap[i]
             /\ PageIds(last'.arg) \subseteq IdsOf(tokensMap') ]_vars

\* C5: the lastUpdated of an id never decreases while the id stays in the
\* canonical map, and that of an entry of the visible list never decreases
\* while the list holds the id, whatever operation is handled.
C5_LastUpdatedMonotonic ==
    [][ /\ \A i \in 1..Len(tokensMap) :
              MapHas(tokensMap', tokensMap[i].id) =>
                 MapGet(tokensMap', tokensMap[i].id).lastUpdated
                    >= tokensMap[i].lastUpdated
        /\ \A i \in 1..Len(tokens), j \in 1..Len(tokens') :
              tokens'[j].id = tokens[i].id =>
                 tokens'[j].lastUpdated >= tokens[i].lastUpdated ]_vars

\* C5 witness: a scanner-pairs event has been handled after which an id
\* the set held before carries a later lastUpdated than it did.
C5_Witness ==
    /\ last.op = "scanner-pairs"
    /\ \E h \in last.had :
          /\ MapHas(tokensMap, h[1])
          /\ MapGet(tokensMap, h[1]).lastUpdated > h[2]

\* the entity a tick of the given price makes of token, its time stamp left
\* as found in after
Repriced(token, price, after) ==
    [token EXCEPT !.priceUsd = price,
                  !.mcap = Mul(token.totalSupply, price),
                  !.lastUpdated = after.lastUpdated]

\* the list a tick for pairAddress makes of list, given the result after
TickResult(list, after, pairAddress, swaps) ==
    LET good == { k \in 1..Len(swaps) : ~swaps[k].isOutlier } IN
    IF good = {} THEN list
    ELSE LET k == CHOOSE k \in good : \A j \in good : j <= k
             price == parseFloat(swaps[k].priceToken1Usd)
         IN  [i \in 1..Len(list) |->
                IF list[i].pairAddress = pairAddress
                THEN Repriced(list[i], price, after[i]) ELSE list[i]]

\* C6: a tick for a pair in the set leaves list and map unchanged if every
\* swap is an outlier; otherwise the entity's price is the price of the
\* last non-outlier swap and its mcap is totalSupply times that price, and
\* no other entity and no other field except lastUpdated changes.
C6_TickReprices ==
    [][ ( /\ last'.op = "tick"
          /\ last'.arg[1] \in IdsOf(tokensMap)
          /\ Tick(last'.arg[1], last'.arg[2]) ) =>
          /\ Len(tokens') = Len(tokens)
          /\ Len(tokensMap') = Len(tokensMap)
          /\ tokens' = TickResult(tokens, tokens', last'.arg[1], last'.arg[2])
          /\ tokensMap'
               = TickResult(tokensMap, tokensMap', last'.arg[1], last'.arg[2])
          /\ (\A k \in 1..Len(last'.arg[2]) : last'.arg[2][k].isOutlier) =>
                (tokens' = tokens /\ tokensMap' = tokensMap) ]_vars

\* C6 witness: a tick has been handled for a pair in the set whose swaps
\* were a non-outlier followed by an outlier of another price: the entity
\* carries the non-outlier's price and totalSupply times that price.
C6_Witness ==
    /\ last.op = "tick"
    /\ MapHas(tokensMap, last.arg[1])
    /\ Len(last.arg[2]) = 2
    /\ ~last.arg[2][1].isOutlier /\ last.arg[2][2].isOutlier
    /\ last.arg[2][1].priceToken1Usd = Num(3)
    /\ last.arg[2][2].priceToken1Usd = Num(4)
    /\ MapGet(tokensMap, last.arg[1]).priceUsd = 3
    /\ MapGet(tokensMap, last.arg[1]).mcap
          = 3 * MapGet(tokensMap, last.arg[1]).totalSupply
    /\ \E i \in 1..Len(tokens) :
          tokens[i].id = last.arg[1] /\ tokens[i].priceUsd = 3

\* C7: a tick or a pair-stats event for a pair that matches no entity
\* leaves the visible list and the canonical map as they are, and starts
\* no request.
C7_UnknownPairDropped ==
    [][ /\ ( /\ last'.op = "tick"
             /\ last'.arg[1] \notin IdsOf(tokens) \cup IdsOf(tokensMap)
             /\ Tick(last'.arg[1], last'.arg[2]) )
           => (tokens' = tokens /\ tokensMap' = tokensMap /\ pending' = pending)
        /\ ( /\ last'.op = "pair-stats"
             /\ last'.arg[1].pairAddress \notin IdsOf(tokens) \cup IdsOf(tokensMap)
             /\ PairStats(last'.arg[1]) )
           => (tokens' = tokens /\ tokensMap' = tokensMap /\ pending' = pending)
      ]_vars

\* C7 witness: a tick with a non-outlier swap has been handled for a pair
\* that is in neither the list nor the map, which hold another pair.
C7_Witness ==
    /\ last.op = "tick"
    /\ last.arg[1] \notin IdsOf(tokens) \cup IdsOf(tokensMap)
    /\ \E k \in 1..Len(last.arg[2]) : ~last.arg[2][k].isOutlier
    /\ tokens # <<>> /\ tokensMap # <<>>

\* C8: handling a pair-stats payload right after the same payload leaves
\* every entity as the first handling left it, lastUpdated apart.
C8_PairStatsIdempotent ==
    [][ (last'.op = "pair-stats" /\ last'.again /\ PairStats(last'.arg[1])) =>
          /\ NoStamp(tokens') = NoStamp(tokens)
          /\ NoStamp(tokensMap') = NoStamp(tokensMap) ]_vars

\* C8 witness: a pair-stats payload for a pair in the set has been handled
\* twice in a row, the second time after the clock had moved on, and the
\* entity carries the payload's flags.
C8_Witness ==
    /\ last.op = "pair-stats" /\ last.again
    /\ MapHas(tokensMap, last.arg[1].pairAddress)
    /\ MapGet(tokensMap, last.arg[1].pairAddress).lastUpdated = MaxTime
    /\ MapGet(tokensMap, last.arg[1].pairAddress).audit.honeypot
          = ~last.arg[1].token1IsHoneypot
    /\ last.arg[1].token1IsHoneypot

\* what an append of the page pairs, whose records at the indices ks are
\* merged, makes of the map; after is the map that resulted
\*   - every id named at an index of ks holds the entity of the last such
\*     record, normalized at the time of the merge;
\*   - every other entity is as it was;
\*   - the ids that were in the map keep their places, and the map holds
\*     the old ids and the merged ones, each once.
AppendMerged(map, after, pairs, ks, t) ==
    LET merged == { pairs[k].pairAddress : k \in ks } IN
    /\ \A id \in merged :
          /\ MapHas(after, id)
          /\ MapGet(after, id)
               = scannerResultToToken(pairs[LastIndexOf(pairs, ks, id)], t)
    /\ \A i \in 1..Len(map) :
          /\ i <= Len(after)
          /\ after[i].id = map[i].id
          /\ map[i].id \notin merged => after[i] = map[i]
    /\ IdsOf(after) = IdsOf(map) \cup merged
    /\ Len(after) = Cardinality(IdsOf(after))

\* C9 (as stated): when the page of a load-more request is merged, every id
\* of the page is inserted or overwritten, every entity whose id is not in
\* the page keeps its state, and the visible list is the map's values in
\* insertion order.
C9_AppendMergesPage ==
    [][ \A i \in 1..Len(pending) :
          ( /\ last'.op = "append"
            /\ pending[i].append
            /\ LoadSucceeds(i, last'.arg, totalRows') ) =>
             /\ AppendMerged(tokensMap, tokensMap', last'.arg,
                             1..Len(last'.arg), now)
             /\ tokens' = tokensMap' ]_vars

\* the records of a page that pass the additional checks of the preset cf
Passing(pairs, cf, t) ==
    { k \in 1..Len(pairs) :
         cf = NoFilter \/ passesAdditionalChecks(scannerResultToToken(pairs[k], t), cf) }

\* C9 (amended): when the page of a load-more request is merged, every id
\* of the page whose record passes the additional checks of the request's
\* preset is inserted or overwritten, every other entity keeps its state,
\* and the visible list is the map's values in insertion order.
C9_AppendMergesPassing ==
    [][ \A i \in 1..Len(pending) :
          ( /\ last'.op = "append"
            /\ pending[i].append
            /\ LoadSucceeds(i, last'.arg, totalRows') ) =>
             /\ AppendMerged(tokensMap, tokensMap', last'.arg,
                             Passing(last'.arg, pending[i].cf, now), now)
             /\ tokens' = tokensMap' ]_vars

\* C9 witness: under the preset blue-chip a load-more page has been merged
\* right after a tick that arrived while the request was in flight; the
\* page named the ticked pair with a record that fails the checks, and
\* another pair that was not in the set: the ticked entity has the tick's
\* price, the other pair is in the set.
C9_Witness ==
    /\ last.op = "append" /\ last.prev = "tick"
    /\ combinedFilter = "blue-chip"
    /\ \E k \in 1..Len(last.arg) :
          /\ ~passesAdditionalChecks(scannerResultToToken(last.arg[k], now),
                                     combinedFilter)
          /\ MapHas(tokensMap, last.arg[k].pairAddress)
          /\ MapGet(tokensMap, last.arg[k].pairAddress).priceUsd = TickPrice
    /\ \E k \in 1..Len(last.arg) :
          /\ MapHas(tokensMap, last.arg[k].pairAddress)
          /\ MapGet(tokensMap, last.arg[k].pairAddress).priceUsd # TickPrice
    /\ tokens = tokensMap

\* C10 (as stated): after a successful load, hasMore is true exactly when
\* the page held a record and the canonical map holds fewer entities than
\* the totalRows the server reported.
C10_HasMoreCountsEntities ==
    last.op \in {"append", "refresh"} =>
       hasMore = (Len(last.arg) > 0 /\ Len(tokensMap) < totalRows)

\* C11 (as stated): loadMore issues a fetch only when no snapshot load of
\* the instance is in flight and hasMore is true.
C11_LoadMoreSuppressed ==
    [][ LoadMoreWithin(MaxInFlight) => (pending = <<>> /\ hasMore) ]_vars

\* C12 (as stated): a table instance has at most one outstanding snapshot
\* request.
C12_OneRequestInFlight == Len(pending) <= 1

\* C13 (as stated): the response of a request that was in flight when a
\* newer refresh or filter change started its own request changes neither
\* the canonical map, the visible list, totalRows, hasMore nor currentPage.
C13_StaleResponseDiscarded ==
    [][ \A i \in 1..Len(pending) :
          ( /\ \E j \in (i + 1)..Len(pending) : ~pending[j].append
            /\ last'.op \in {"append", "refresh"}
            /\ LoadSucceeds(i, last'.arg, totalRows') ) =>
             UNCHANGED << tokens, tokensMap, totalRows, hasMore, currentPage >>
      ]_vars

PairRooms(held, kind) == { r[2].pair : r \in { x \in held : x[1] = kind } }

\* C15 (as stated): when the composition of a table's visible list has
\* changed, the pairs in its subscriptionsRef and the pairs for which the
\* server holds pair and pair-stats subscriptions are the pairs of the list.
C15_SubscriptionsFollowList ==
    [][ IdsOf(hooks'["trending"].tokens) # IdsOf(hooks["trending"].tokens) =>
          /\ hooks'["trending"].subscriptionsRef
               = IdsOf(hooks'["trending"].tokens)
          /\ PairRooms(rooms', "pair") = IdsOf(hooks'["trending"].tokens)
          /\ PairRooms(rooms', "pair-stats") = IdsOf(hooks'["trending"].tokens)
      ]_vars

\* C16 (as stated): when a socket opens after an open socket had closed,
\* the server holds again every subscription it held when that socket
\* closed.
C16_ReconnectResubscribes ==
    [][ (OnOpen /\ wsService.reconnectAttempts > 0) => dropped \subseteq rooms'
      ]_vars

\* C17 (as stated): when connecting the channel fails, every mounted table
\* reports connected = false, and the failure changes neither a table's
\* list nor the fetch error.
C17_ConnectFailureReported ==
    [][ OnError =>
          /\ \A tb \in Tables :
                hooks[tb].mounted = "yes" => ~hooks'[tb].connected
          /\ \A tb \in Tables : hooks'[tb].tokens = hooks[tb].tokens
          /\ error' = error ]_vars

\* C18 (as stated): a load of one table, with the resubscription that
\* follows it, or its teardown changes nothing of the other table and
\* cancels no pair or pair-stats subscription of a pair the other table
\* shows.
C18_TablesIndependent ==
    [][ \A tb \in Tables :
          ( \/ \E pairs \in ShortPages : TableLoads(tb, pairs)
            \/ Unmount(tb) ) =>
             \A other \in Tables \ {tb} :
                /\ hooks'[other] = hooks[other]
                /\ \A id \in IdsOf(hooks[other].tokens) :
                      /\ <<"pair", PairData(id)>> \in rooms
                            => <<"pair", PairData(id)>> \in rooms'
                      /\ <<"pair-stats", PairData(id)>> \in rooms
                            => <<"pair-stats", PairData(id)>> \in rooms'
      ]_vars

\* C19 (as stated): the callback of a table that has been torn down is not
\* registered with the service.
C19_NoCallbackAfterTeardown ==
    \A tb \in Tables :
       hooks[tb].mounted = "gone" => tb \notin wsService.callbacks

\* C20: for every preset name and every base parameter object, the page
\* and the chain of the object applyCombinedFilterToParams returns are the
\* page and the chain of the base object.
C20_PageAndChainPreserved ==
    paramsCall.returned =>
       /\ Prop(paramsCall.result, "page", Undefined)
            = Prop(paramsCall.baseParams, "page", Undefined)
       /\ Prop(paramsCall.result, "chain", UndefStr)
            = Prop(paramsCall.baseParams, "chain", UndefStr)

\* C20 witness: a preset's criteria have been merged into a base object
\* that names a page after the first and a chain, and has a rankBy of its
\* own that the preset has replaced.
C20_Witness ==
    /\ paramsCall.returned
    /\ paramsCall.combinedFilterType = "hodl"
    /\ Prop(paramsCall.baseParams, "page", Undefined) = 2
    /\ Prop(paramsCall.baseParams, "chain", UndefStr) = "SOL"
    /\ Prop(paramsCall.baseParams, "rankBy", UndefStr) = "age"
    /\ Prop(paramsCall.result, "rankBy", UndefStr) = "mcap"
    /\ Prop(paramsCall.result, "page", Undefined) = 2

\* the call of fn that has returned
Returned(fn) == call.fn = fn /\ call.returned

\* C21: without a preset, buildApiParamsWithCombinedFilters gives the
\* template of the table: trending has rankBy volume, orderBy desc,
\* minVol24H the filter's minVolume or 1000, maxAge the filter's maxAge in
\* seconds or 604800, isNotHP the honeypot flag; new has rankBy age, orderBy
\* desc, maxAge the filter's maxAge in seconds or 86400, isNotHP the flag and
\* no minVol24H; in both minLiq is minMarketCap when set and else absent,
\* chain is the first selected chain if any and else absent, page is the
\* page asked for.
C21_TemplateWithoutPreset ==
    ( /\ Returned("buildApiParamsWithCombinedFilters")
      /\ call.arg[1].filters.combinedFilter = NoFilter ) =>
    LET f == call.arg[1].filters
        trending == call.arg[1].tableType = "trending"
        r == call.result
    IN  /\ r.rankBy = IF trending THEN "volume" ELSE "age"
        /\ r.orderBy = "desc"
        /\ IF trending
           THEN r.minVol24H = IF f.minVolume = NullNumber THEN 1000
                              ELSE f.minVolume
           ELSE "minVol24H" \notin DOMAIN r
        /\ r.maxAge = IF f.maxAge # NullNumber THEN f.maxAge * 3600
                      ELSE IF trending THEN 604800 ELSE 86400
        /\ r.isNotHP = f.excludeHoneypots
        /\ IF f.minMarketCap = NullNumber THEN "minLiq" \notin DOMAIN r
           ELSE r.minLiq = f.minMarketCap
        /\ IF f.chains = <<>> THEN "chain" \notin DOMAIN r
           ELSE r.chain = f.chains[1]
        /\ r.page = call.arg[2]
        /\ DOMAIN r \subseteq {"rankBy", "orderBy", "minVol24H", "maxAge",
                               "isNotHP", "minLiq", "chain", "page"}

\* C21 witness: the parameters of the new table have been built without a
\* preset from a filter state with every filter set and two chains
\* selected, for a page after the first.
C21_Witness ==
    /\ Returned("buildApiParamsWithCombinedFilters")
    /\ call.arg[1].tableType = "new"
    /\ call.arg[1].filters.combinedFilter = NoFilter
    /\ call.arg[1].filters.chains = <<"SOL", "ETH">>
    /\ call.arg[1].filters.maxAge = 12
    /\ call.arg[1].filters.minMarketCap = 1000000
    /\ call.arg[2] = 2
    /\ call.result.maxAge = 43200
    /\ call.result.chain = "SOL"

\* C22 (as stated): the parameters the hook builds carry rankBy = sortColumn
\* when a sortColumn is supplied and orderBy = sortOrder when a sortOrder is
\* supplied, whether or not a filter state is supplied.
C22_SortCarried ==
    Returned("buildApiParams") =>
       /\ call.arg[1].sortColumn # UndefStr
             => call.result.rankBy = call.arg[1].sortColumn
       /\ call.arg[1].sortOrder # UndefStr
             => call.result.orderBy = call.arg[1].sortOrder

\* every threshold that the checks define holds for the entity; a ratio
\* threshold r is kept as 100 * r, and says nothing of an entity without a
\* market cap
ThresholdsHold(token, checks) ==
    LET Has(k) == k \in DOMAIN checks
        totalTxns == token.transactions.buys + token.transactions.sells
    IN  /\ Has("minPriceChange5M") =>
              token.priceChange5M >= checks.minPriceChange5M
        /\ Has("maxPriceChange5M") =>
              /\ token.priceChange5M <= checks.maxPriceChange5M
              /\ 0 - token.priceChange5M <= checks.maxPriceChange5M
        /\ Has("minTransactionCount") =>
              totalTxns >= checks.minTransactionCount
        /\ (Has("minLiquidityRatio") /\ token.mcap > 0) =>
              100 * token.liquidity >= checks.minLiquidityRatio * token.mcap
        /\ Has("maxRiskScore") =>
              calculateRiskScore(token) <= checks.maxRiskScore
        /\ (Has("requiresSocialLinks") /\ checks.requiresSocialLinks) =>
              HasLinks(token)

\* C23 (as stated): passesAdditionalChecks(entity, preset) is true exactly
\* when every threshold the preset's additionalChecks define holds for the
\* entity, and is true for a null, custom or unknown preset.
C23_PassesIffThresholdsHold ==
    Returned("passesAdditionalChecks") =>
       LET config == COMBINED_FILTER_PRESETS(call.arg[2])
       IN  IF call.arg[2] \in {"moonshot", "blue-chip", "scalp", "hodl"}
           THEN call.result
                  <=> ThresholdsHold(call.arg[1], config.additionalChecks)
           ELSE call.result

\* the contributions of the risk table, the ratio of liquidity to a
\* positive market cap being compared as 100 * liquidity with pct * mcap
RiskTable(token) ==
    (IF token.ageHours < 1 THEN 40 ELSE IF token.ageHours < 24 THEN 30
     ELSE IF token.ageHours < 168 THEN 20 ELSE IF token.ageHours < 720 THEN 10
     ELSE 0)
    + (IF 100 * token.liquidity < 5 * token.mcap THEN 25
       ELSE IF 100 * token.liquidity < 10 * token.mcap THEN 15
       ELSE IF 100 * token.liquidity < 20 * token.mcap THEN 5 ELSE 0)
    + (IF token.audit.honeypot THEN 50 ELSE 0)
    + (IF token.audit.mintable THEN 20 ELSE 0)
    + (IF token.audit.freezable THEN 15 ELSE 0)
    + (IF ~token.audit.contractVerified THEN 25 ELSE 0)
    + (IF token.volumeUsd < 1000 THEN 20
       ELSE IF token.volumeUsd < 10000 THEN 10 ELSE 0)
    + (IF ~HasLinks(token) THEN 15 ELSE 0)

\* C24 (as stated): for every entity with a positive market cap,
\* calculateRiskScore is the smaller of 100 and the sum of the
\* contributions of the risk table.
C24_RiskScoreIsTable ==
    (Returned("calculateRiskScore") /\ call.arg[1].mcap > 0) =>
       call.result = IF RiskTable(call.arg[1]) > 100 THEN 100
                     ELSE RiskTable(call.arg[1])

\* the number a source field stands for, 0 when it is missing, empty or no
\* number
NumberOr0(v) == IF v.k = "num" THEN v.n ELSE 0

\* the four market-cap fields of a record in the order of their priority
McapFields(result) ==
    << NumberOr0(result.currentMcap), NumberOr0(result.initialMcap),
       NumberOr0(result.pairMcapUsd), NumberOr0(result.pairMcapUsdInitial) >>

\* C25: calculateMarketCap returns the first positive value among
\* currentMcap, initialMcap, pairMcapUsd and pairMcapUsdInitial, each parsed
\* with fallback 0, and totalSupply * price when none is positive.
C25_FirstPositiveMcap ==
    Returned("calculateMarketCap") =>
       LET fields == McapFields(call.arg[1])
           positive == { k \in 1..4 : fields[k] > 0 }
       IN  IF positive = {}
           THEN call.result
                  = NumberOr0(call.arg[1].token1TotalSupplyFormatted)
                    * NumberOr0(call.arg[1].price)
           ELSE \E k \in positive :
                   /\ \A j \in positive : k <= j
                   /\ call.result = fields[k]

\* C25 witness: the market cap of a record with currentMcap 0,
\* initialMcap 500000 and the two pair values set has been computed, and is
\* 500000.
C25_Witness ==
    /\ Returned("calculateMarketCap")
    /\ call.arg[1].currentMcap = Num(0)
    /\ call.arg[1].initialMcap = Num(500000)
    /\ call.arg[1].pairMcapUsd = Num(600)
    /\ call.arg[1].pairMcapUsdInitial = Num(700)
    /\ call.result = 500000

\* C26 (as stated): no numeric field of an entity of the canonical map or
\* of the visible list is NaN.
C26_NoNaNField ==
    \A list \in {tokens, tokensMap} : \A i \in 1..Len(list) :
       /\ list[i].priceUsd # NaN
       /\ list[i].mcap # NaN
       /\ list[i].volumeUsd # NaN
       /\ list[i].totalSupply # NaN
       /\ list[i].priceChange5M # NaN
       /\ list[i].liquidity # NaN
       /\ list[i].migrationPc # NaN

\* C27 (as stated): the service never has a second socket alive, and an
\* initWebSocket goes on past its await of connect() only when the socket
\* of the service is open.
C27_OneSocketResolvedWhenOpen ==
    [][ /\ orphans' = 0
        /\ \A tb \in Tables :
              (hooks[tb].pc # "ready" /\ hooks'[tb].pc = "ready")
                 => wsService'.ws = "open" ]_vars

\* C28: after disconnect() the service is not connected and its stored
\* subscriptions are empty; and as long as no socket has been asked for
\* since, no reconnect is scheduled and a reconnect timer that fires makes
\* no socket, also one that was pending at the disconnect().
C28_DisconnectStops ==
    [][ /\ Disconnect =>
             /\ wsService'.ws # "open"
             /\ wsService'.subscriptions = {}
        /\ (wsService.ws = "null" \/ ~wsService.shouldReconnect) =>
             /\ timers' <= timers
             /\ TimerFires => wsService'.ws = wsService.ws ]_vars

\* C28 witness: disconnect() has been called after a close that scheduled a
\* reconnect, while the timer of that reconnect was pending.
C28_Witness ==
    /\ ~wsService.shouldReconnect
    /\ wsService.ws = "null"
    /\ wsService.subscriptions = {}
    /\ wsService.reconnectAttempts > 0
    /\ timers > 0

\* C29: a reconnect is scheduled only when fewer than 5 attempts have been
\* made since the socket last opened, and counts as one more; the opening
\* of a socket puts the count back to 0; the count never exceeds 5.
C29_ReconnectBounded ==
    [][ /\ timers' > timers =>
             /\ wsService.reconnectAttempts < 5
             /\ wsService'.reconnectAttempts = wsService.reconnectAttempts + 1
        /\ OnOpen => wsService'.reconnectAttempts = 0
        /\ wsService'.reconnectAttempts # wsService.reconnectAttempts =>
             (timers' > timers \/ OnOpen)
        /\ wsService'.reconnectAttempts <= 5 ]_vars

\* C29 witness: five attempts in a row have failed, the socket of the fifth
\* has closed, and no reconnect is scheduled.
C29_Witness ==
    /\ wsService.reconnectAttempts = 5
    /\ wsService.ws = "closed"
    /\ wsService.shouldReconnect
    /\ timers = 0

\* C30 (as stated): every aggregate scanner-filter subscription that the
\* server holds for the table is the one for the table's current
\* parameters, so that there is at most one.
C30_OneScannerFilter ==
    \A r \in { x \in rooms : x[1] = "scanner-filter" } :
       r[2] = buildApiParams(hooks["trending"].props, 1)

\* the subscribe messages of the pair and pair-stats rooms of a pair
SubscribeMessages(pairAddress) ==
    { Message(SubscribePair, PairData(pairAddress)),
      Message(SubscribePairStats, PairData(pairAddress)) }

\* C31 (as stated): once unsubscribe-pair and unsubscribe-pair-stats have
\* been sent on the open socket for a pair that is not subscribed again, the
\* service no longer stores the subscribe messages of that pair, and when
\* the socket opens again it re-sends only the subscriptions of the pairs
\* that the table has not unsubscribed.
C31_UnsubscribedNotReplayed ==
    [][ /\ \A id \in Ids :
             ( /\ wsService.ws = "open"
               /\ id \in hooks["trending"].subscriptionsRef
               /\ id \notin hooks'["trending"].subscriptionsRef )
             => SubscribeMessages(id) \cap wsService'.subscriptions = {}
        /\ OnOpen =>
             PairRooms(rooms', "pair") \subseteq hooks["trending"].subscriptionsRef
      ]_vars

\* the server holds, for the open socket, the pair and pair-stats rooms of
\* every entity of the table's list and a scanner-filter subscription
ListSubscribed(tb) ==
    /\ IdsOf(hooks[tb].tokens) \subseteq PairRooms(rooms, "pair")
    /\ IdsOf(hooks[tb].tokens) \subseteq PairRooms(rooms, "pair-stats")
    /\ \E r \in rooms : r[1] = "scanner-filter"

\* C32 (as stated): whenever the socket is open and the table shows
\* entities, the subscriptions of every entity and the scanner-filter
\* subscription are eventually held, unless the list empties first.
C32_LateOpenSubscribes ==
    ( /\ wsService.ws = "open"
      /\ Len(hooks["trending"].tokens) > 0 )
    ~> ( ListSubscribed("trending") \/ Len(hooks["trending"].tokens) = 0 )

\* C33 (as stated): a mounted table whose connected flag is true finds the
\* socket of the service open.
C33_ConnectedImpliesOpen ==
    \A tb \in Tables :
       (hooks[tb].mounted = "yes" /\ hooks[tb].connected)
       => wsService.ws = "open"

\* the messages of a subscribeToTokens that sends only for the pairs that
\* enter or leave the subscribed set
DiffMessages(ref, tokensToSubscribe) ==
    LET ids == IdsOf(tokensToSubscribe)
    IN  PairMessages(SetToSeq(ref \ ids), UnsubscribePair, UnsubscribePairStats)
        \o PairMessages(SetToSeq(ids \ ref), SubscribePair, SubscribePairStats)

\* C34 (as stated): a tick or a pair-stats event that patches an entity of
\* the list, the ids of the list staying as they are, makes the table send
\* the messages of the difference between the subscribed ids and the ids of
\* the list, that is no message.
C34_PatchSendsNothing ==
    [][ ( /\ \/ \E pairAddress \in Ids, swaps \in SwapLists :
                  TableTick("trending", pairAddress, swaps)
             \/ \E msg \in PairStatsMsgs : TablePairStats("trending", msg)
          /\ IdsOf(hooks'["trending"].tokens) = IdsOf(hooks["trending"].tokens) )
        => /\ hooks'["trending"].sent
                = DiffMessages(hooks["trending"].subscriptionsRef,
                               hooks'["trending"].tokens)
           /\ hooks'["trending"].sent = <<>> ]_vars

\* C35 (as stated): under a strategy preset, every entity that a merged
\* page or a scanner-pairs event puts into the map passes the additional
\* checks of the preset.
C35_InsertedPassesPreset ==
    [][ ( /\ combinedFilter # NoFilter
          /\ last'.op \in {"refresh", "append", "scanner-pairs"} )
        => \A i \in 1..Len(tokensMap') :
              ( \/ last'.op = "refresh"
                \/ ~MapHas(tokensMap, tokensMap'[i].id) )
              => passesAdditionalChecks(tokensMap'[i], combinedFilter) ]_vars

\* C36 (as stated): loadMore requests the page after currentPage only if
\* the page currentPage has been merged since page 1 was last requested;
\* page 2 is not requested while page 1 has failed or is awaited.
C36_PagesContiguous ==
    [][ last'.op = "loadMore"
        => /\ pending'[Len(pending')].page = currentPage + 1
           /\ currentPage \in last.mergedPages ]_vars

\* C37 (as stated): the ids of the visible list are the keys of the map,
\* and every entry of the list is the value the map holds for its id.
C37_ListIsMap ==
    /\ IdsOf(tokens) = IdsOf(tokensMap)
    /\ \A i \in 1..Len(tokens) : MapGet(tokensMap, tokens[i].id) = tokens[i]

\* C38 (as stated): after a pair-stats event, the entity of its pair is a
\* honeypot exactly when the payload reports one, mintable exactly when
\* the mint authority is not renounced and freezable exactly when the
\* freeze authority is not renounced, as in the entities of a snapshot.
C38_AuditPolarity ==
    last.op = "pair-stats" =>
       \A i \in 1..Len(tokens) :
          Matches(tokens[i], last.arg[1].pairAddress) =>
             /\ tokens[i].audit.honeypot = last.arg[1].token1IsHoneypot
             /\ tokens[i].audit.mintable = ~last.arg[1].mintAuthorityRenounced
             /\ tokens[i].audit.freezable = ~last.arg[1].freezeAuthorityRenounced

\* C39 (as stated): a scanner-pairs event for a scanner-filter subscription
\* leaves the list of every table whose parameters are not the filter of
\* that subscription as it is.
C39_EventMergedByOwner ==
    [][ \A filter \in FiltersHeld, pairs \in ShortPages :
          ScannerPairsArrives(filter, pairs) =>
             \A tb \in Tables :
                filter # buildApiParams(hooks[tb].props, 1)
                => hooks'[tb].tokens = hooks[tb].tokens ]_vars

\* C40 (as stated): while a request for page 1 that replaces the list (the
\* initial load, a refresh, a filter change) awaits its response, loading
\* is true.
C40_LoadingWhileRefreshing ==
    (\E j \in 1..Len(pending) : ~pending[j].append) => loading

====
